---------------------------- MODULE Spec2Model ----------------------------
(***************************************************************************)
(* Art Grid: seeded shape generator, SVG renderer with embedded metadata,  *)
(* metadata decoder and the editing tool built on them.                    *)
(*                                                                         *)
(* Numbers.  JavaScript numbers that are integers in the program (canvas   *)
(* width and height, shape counts, layer numbers) are TLA+ integers.       *)
(* Real-valued quantities (positions, sizes, rotations, texture scales)    *)
(* are fixed-point integers counting 1/Unit of a pixel or degree; a        *)
(* product with a random draw is rounded down to that resolution.  The     *)
(* seeded stream itself is exact: its state is a 32-bit word and a draw    *)
(* is the rational state / 2^32.                                           *)
(*                                                                         *)
(* Objects.  A JavaScript object is a record; a property that is missing   *)
(* or undefined is a field that is absent from the record.                 *)
(***************************************************************************)
EXTENDS Integers, Sequences, FiniteSets, TLC

(***************************************************************************)
(* Fixed-point resolution: Unit steps per pixel (or per degree).           *)
(***************************************************************************)
Unit == 2 * 32

Min(a, b) == IF a <= b THEN a ELSE b
Max(a, b) == IF a >= b THEN a ELSE b
Abs(a) == IF a < 0 THEN -a ELSE a

Has(obj, key) == key \in DOMAIN obj

(***************************************************************************)
(* 32-bit words: a pair <<hi, lo>> of 16-bit halves, the word's value      *)
(* being hi * 2^16 + lo.  (TLC's integers are 32-bit and signed.)          *)
(***************************************************************************)
Half == 2^16
ZeroWord == <<0, 0>>
OneWord == <<0, 1>>

\* The word holding the integer n, 0 <= n < 2^31.
WordOf(n) == <<n \div Half, n % Half>>

\* Byte k (0 = least significant) of a word, as an integer 0..255.
ByteOf(w, k) ==
    CASE k = 0 -> w[2] % 256
      [] k = 1 -> w[2] \div 256
      [] k = 2 -> w[1] % 256
      [] k = 3 -> w[1] \div 256

\* Bitwise exclusive or of two n-bit naturals.
RECURSIVE XorBits(_, _, _)
XorBits(a, b, n) ==
    IF n = 0 THEN 0
    ELSE (((a % 2) + (b % 2)) % 2) + 2 * XorBits(a \div 2, b \div 2, n - 1)

\* The same on 4-bit digits, tabulated once, and on 16-bit halves.
XorNibble == [a \in 0..15 |-> [b \in 0..15 |-> XorBits(a, b, 4)]]
Xor16(a, b) ==
    XorNibble[a % 16][b % 16]
    + 16 * XorNibble[(a \div 16) % 16][(b \div 16) % 16]
    + 256 * XorNibble[(a \div 256) % 16][(b \div 256) % 16]
    + 4096 * XorNibble[a \div 4096][b \div 4096]

Xor(a, b) == <<Xor16(a[1], b[1]), Xor16(a[2], b[2])>>

\* a << k and a >>> k on 32 bits, for 0 < k < 32.
Shl(a, k) ==
    IF k < 16
    THEN <<(a[1] % (2^(16-k))) * 2^k + a[2] \div (2^(16-k)), (a[2] % (2^(16-k))) * 2^k>>
    ELSE <<(a[2] % (2^(32-k))) * 2^(k-16), 0>>
Shr(a, k) ==
    IF k < 16
    THEN <<a[1] \div 2^k, (a[1] % 2^k) * 2^(16-k) + a[2] \div 2^k>>
    ELSE <<0, a[1] \div 2^(k-16)>>

\* Two's complement negation modulo 2^32.
NegWord(w) ==
    IF w[2] = 0 THEN <<(Half - w[1]) % Half, 0>>
    ELSE <<Half - 1 - w[1], Half - w[2]>>

(***************************************************************************)
(* floor(w * e / 2^32) for a word w and an integer e with |e| < 2^22,      *)
(* computed bytewise so that no intermediate value leaves 32 bits.  This   *)
(* is Math.floor(rng() * e) for the draw rng() = w / 2^32.                 *)
(*                                                                         *)
(* MulFold(w, e, 0, 0, add) is floor((w * e + add * (2^32 - 1) / 255)      *)
(* / 2^32): with add = 255 it rounds the quotient up instead of down.      *)
(***************************************************************************)
RECURSIVE MulFold(_, _, _, _, _)
MulFold(w, e, k, carry, add) ==
    IF k = 4 THEN carry
    ELSE MulFold(w, e, k + 1, (ByteOf(w, k) * e + add + carry) \div 256, add)

MulFloor(w, e) ==
    IF e >= 0 THEN MulFold(w, e, 0, 0, 0) ELSE -MulFold(w, -e, 0, 0, 255)

(***************************************************************************)
(* Seeds.  A seed value is what the caller put in options.seed:            *)
(* nan  - the value is not numeric (Number(seed) is NaN);                  *)
(* neg  - the number is negative;                                          *)
(* over - the magnitude divided by 2^32;                                   *)
(* low  - the low 32 bits of the magnitude.                                *)
(***************************************************************************)
SeedNum(n) == [nan |-> FALSE, neg |-> n < 0, over |-> 0, low |-> WordOf(Abs(n))]
SeedWide(o, w) == [nan |-> FALSE, neg |-> FALSE, over |-> o, low |-> w]
SeedNaN == [nan |-> TRUE, neg |-> FALSE, over |-> 0, low |-> ZeroWord]

\* Number(seed) >>> 0
ToUint32(seed) ==
    IF seed.nan THEN ZeroWord
    ELSE IF seed.neg THEN NegWord(seed.low)
    ELSE seed.low

(***************************************************************************)
(* The seeded stream (xorshift32).  createRng returns the initial state;   *)
(* each call of the returned closure replaces the state by xorshift(state) *)
(* and yields state / 2^32.  A draw is represented by the new state.       *)
(***************************************************************************)
\* The state Number(seed) >>> 0 as it is.
createRngAsGiven(seed) == ToUint32(seed)

createRng(seed) ==
    LET w == ToUint32(seed)
    IN  IF w = ZeroWord THEN OneWord ELSE w

\* state ^= state << k and state ^= state >>> k
XorShl(state, k) == Xor(state, Shl(state, k))
XorShr(state, k) == Xor(state, Shr(state, k))

\* Three shifts to the left.
xorshiftLeft(state) == XorShl(XorShl(XorShl(state, 13), 17), 5)

xorshift(state) == XorShl(XorShr(XorShl(state, 13), 17), 5)

\* <<s1, ..., sn>>: the states after each of the next n calls of the closure
\* whose state is acc[Len(acc)]; acc[1] is the state before the first call.
RECURSIVE Draws(_, _)
Draws(acc, n) ==
    IF Len(acc) > n THEN Tail(acc)
    ELSE Draws(Append(acc, xorshift(acc[Len(acc)])), n)

\* randomInt(rng, lo, hi), where draw is the state after the call of rng().
randomInt(draw, minInclusive, maxInclusive) ==
    MulFloor(draw, maxInclusive - minInclusive + 1) + minInclusive

\* randomChoice(rng, values); values is a sequence (index 1 is JavaScript's 0).
randomChoice(draw, values) == values[randomInt(draw, 0, Len(values) - 1) + 1]

\* `shape-${Math.floor(rng() * 1000000)}`
ShapeId(draw) == <<"shape", MulFloor(draw, 1000000)>>

ShapeTypes == <<"rect", "circle", "rect", "circle">>

(***************************************************************************)
(* Bounded-placement engine (the minimal variant of the engine).           *)
(***************************************************************************)
DEFAULT_OPTIONS_BOUNDED(now) ==
    [width |-> 420, height |-> 920, shapeCount |-> 80, seed |-> now,
     minSize |-> 8, maxSize |-> 120,
     patterns |-> <<"solid", "hatch", "cross-hatch", "dots", "checkerboard", "stripes">>,
     colors |-> <<"#00ff00", "#ff0000", "#00ffff", "#ff00ff", "#ffff00", "#ffffff",
                  "#0000ff">>]

\* { ...userOptions, ...defaults }: the spread operands in the wrong order.
MergeDefaultsLast(defaults, userOptions) ==
    [k \in DOMAIN defaults \cup DOMAIN userOptions |->
        IF k \in DOMAIN defaults THEN defaults[k] ELSE userOptions[k]]

\* { ...defaults, ...userOptions }
MergeOptions(defaults, userOptions) ==
    [k \in DOMAIN defaults \cup DOMAIN userOptions |->
        IF k \in DOMAIN userOptions THEN userOptions[k] ELSE defaults[k]]

\* minX + rng() * (maxX - minX) with minX = size / 2 and maxX = length - size / 2
PlaceInside(draw, size, length) ==
    (size * Unit) \div 2 + MulFloor(draw, (length * Unit - (size * Unit) \div 2)
                                          - (size * Unit) \div 2)

\* The shape built from d, the states after each of the routine's eight draws.
ShapeOfDrawsBounded(d, size, options, bounds) ==
    [type |-> randomChoice(d[1], ShapeTypes),
     x |-> PlaceInside(d[3], size, bounds.width),
     y |-> PlaceInside(d[4], size, bounds.height),
     size |-> size * Unit,
     color |-> randomChoice(d[5], options.colors),
     pattern |-> randomChoice(d[6], options.patterns),
     rotation |-> MulFloor(d[7], 360 * Unit),
     id |-> ShapeId(d[8])]

SizeOfDrawsBounded(d, options) == randomInt(d[2], options.minSize, options.maxSize)

ShapeAndRngBounded(d, options, bounds) ==
    [shape |-> ShapeOfDrawsBounded(d, SizeOfDrawsBounded(d, options), options, bounds),
     rng |-> d[8]]

\* One shape from the stream in state rng; yields the shape and the state left.
generateShapeBounded(rng, options, bounds) ==
    ShapeAndRngBounded(Draws(<<rng>>, 8), options, bounds)

\* shapes.push(g.shape), the stream left in the state g.rng
Pushed(shapes, g) == [shapes |-> Append(shapes, g.shape), rng |-> g.rng]

\* for (i ...) shapes.push(generateShape(rng, options, bounds)), until the
\* list holds total shapes; acc is the list so far and the stream's state.
RECURSIVE GenerateLoopBounded(_, _, _, _)
GenerateLoopBounded(acc, total, options, bounds) ==
    IF Len(acc.shapes) >= total THEN acc
    ELSE GenerateLoopBounded(Pushed(acc.shapes,
                                    generateShapeBounded(acc.rng, options, bounds)),
                             total, options, bounds)

\* Math.round(shapeCount * 0.3): rounding to nearest instead of down.
DecorativeCountRounded(shapeCount) == (shapeCount * 3 + 5) \div 10

\* Math.floor(shapeCount * 0.3); the double product n * 0.3 rounds to the
\* exact value 3n/10 whenever that is an integer, so the floor is 3n div 10.
DecorativeCount(shapeCount) == (shapeCount * 3) \div 10

\* The returned object, from the merged options and the shapes pushed.
GridOf(options, shapes) ==
    [meta |-> [width |-> options.width, height |-> options.height,
               seed |-> options.seed, shapeCount |-> Len(shapes)],
     shapes |-> shapes]

\* The decorative loop without the override of the size range.
DecorativeSameRange(main, options, bounds) ==
    GenerateLoopBounded(main, Len(main.shapes) + DecorativeCount(options.shapeCount),
                        options, bounds)

\* The decorative loop: decorativeCount more shapes with the sizes 2..12.
DecorativeBounded(main, options, bounds) ==
    GenerateLoopBounded(main, Len(main.shapes) + DecorativeCount(options.shapeCount),
                        [options EXCEPT !.minSize = 2, !.maxSize = 12], bounds)

ShapesBounded(options, bounds) ==
    DecorativeBounded(GenerateLoopBounded([shapes |-> <<>>, rng |-> createRng(options.seed)],
                                          options.shapeCount, options, bounds),
                      options, bounds).shapes

GridBounded(options) ==
    GridOf(options, ShapesBounded(options, [width |-> options.width,
                                            height |-> options.height]))

generateArtGridBounded(userOptions, now) ==
    GridBounded(MergeOptions(DEFAULT_OPTIONS_BOUNDED(now), userOptions))

(***************************************************************************)
(* Spread-placement engine (the current engine).                           *)
(*                                                                         *)
(* options.spread is a record: nan says the value is not numeric, v is     *)
(* the number in hundredths.  A layer is LayerNum(n) for the number n or   *)
(* LayerName(s) for the string s.                                          *)
(***************************************************************************)
SpreadNum(hundredths) == [nan |-> FALSE, v |-> hundredths]
SpreadNaN == [nan |-> TRUE, v |-> 0]

LayerNum(n) == [num |-> n]
LayerName(s) == [name |-> s]

PatternNames == <<"solid", "hatch", "cross-hatch", "dots", "checkerboard", "stripes">>
ColorNames == <<"#00ff00", "#ff0000", "#00ffff", "#ff00ff", "#ffff00", "#ffffff", "#0000ff">>

DEFAULT_OPTIONS(now) ==
    [width |-> 1200, height |-> 2400, shapeCount |-> 80, seed |-> now,
     minSize |-> 8, maxSize |-> 120,
     minTextureScale |-> Unit \div 2, maxTextureScale |-> 2 * Unit,
     randomRotation |-> TRUE, spread |-> SpreadNum(100),
     patterns |-> PatternNames, colors |-> ColorNames]

\* The fields of obj among keys that obj has.
PickFields(obj, keys) == [k \in (keys \cap DOMAIN obj) |-> obj[k]]

\* Math.max(1, Number(options.spread) || 1): the floor 1 instead of 0.1.
EffectiveSpreadAtLeastOne(options) ==
    IF ~Has(options, "spread") THEN 100
    ELSE IF options.spread.nan \/ options.spread.v = 0 THEN 100
    ELSE Max(100, options.spread.v)

\* Math.max(0.1, Number(options.spread) || 1), in hundredths.
EffectiveSpread(options) ==
    IF ~Has(options, "spread") THEN 100
    ELSE IF options.spread.nan \/ options.spread.v = 0 THEN 100
    ELSE Max(10, options.spread.v)

\* Array.isArray(stamps) && stamps.length > 0
UseStamps(options) == Has(options, "stamps") /\ Len(options.stamps) > 0

StampDefFields == {"stampPath", "stampWidth", "stampHeight", "stampPathResolution"}
StampEditorFields == {"stampPathEditor", "stampWidthEditor", "stampHeightEditor"}

\* spread * Math.min(bounds.width, bounds.height) / 2
Extent(options, bounds) ==
    (((Min(bounds.width, bounds.height) * Unit) \div 2) * EffectiveSpread(options)) \div 100

\* center + (2 * rng() - 1) * extent
PlaceAround(draw, length, extent) ==
    (length * Unit) \div 2 + (MulFloor(draw, 2 * extent) - extent)

\* The fields every shape has, from d, the states after each draw; k is 1
\* when the rotation draw was made and 0 when it was skipped.
CommonOfDraws(d, k, extent, options, bounds) ==
    [x |-> PlaceAround(d[2], bounds.width, extent),
     y |-> PlaceAround(d[3], bounds.height, extent),
     size |-> randomInt(d[1], options.minSize, options.maxSize) * Unit,
     color |-> randomChoice(d[4], options.colors),
     pattern |-> randomChoice(d[5], options.patterns),
     rotation |-> IF k = 1 THEN MulFloor(d[6], 360 * Unit) ELSE 0,
     layer |-> LayerNum(randomInt(d[6 + k], 1, 5)),
     textureScale |-> options.minTextureScale
                      + MulFloor(d[7 + k],
                                 options.maxTextureScale - options.minTextureScale),
     id |-> ShapeId(d[8 + k])]

\* The stamp fields copied into a shape: the definition, and the editor's
\* version of the path when the stamp has one.
StampFields(stamp) ==
    PickFields(stamp, IF Has(stamp, "stampPathEditor")
                      THEN StampDefFields \cup StampEditorFields
                      ELSE StampDefFields)

\* A kind drawn without regard to the pool.
KindOfDrawPrimitive(draw, options) ==
    "type" :> randomChoice(draw, ShapeTypes)

KindOfDraw(draw, options) ==
    IF UseStamps(options)
    THEN ("type" :> "stamp")
         @@ StampFields(options.stamps[randomInt(draw, 0, Len(options.stamps) - 1) + 1])
    ELSE ("type" :> randomChoice(draw, ShapeTypes))

\* The kind drawn before the id.
ShapeAndRngKindFirst(d, k, options, bounds) ==
    [shape |-> KindOfDraw(d[8 + k], options)
               @@ [CommonOfDraws(d, k, Extent(options, bounds), options, bounds)
                      EXCEPT !.id = ShapeId(d[9 + k])],
     rng |-> d[9 + k]]

ShapeAndRng(d, k, options, bounds) ==
    [shape |-> KindOfDraw(d[9 + k], options)
               @@ CommonOfDraws(d, k, Extent(options, bounds), options, bounds),
     rng |-> d[9 + k]]

\* One shape from the stream in state rng; yields the shape and the state
\* left.  The rotation draw is made only when randomRotation is not false.
generateShape(rng, options, bounds) ==
    IF options.randomRotation
    THEN ShapeAndRng(Draws(<<rng>>, 10), 1, options, bounds)
    ELSE ShapeAndRng(Draws(<<rng>>, 9), 0, options, bounds)

RECURSIVE GenerateLoop(_, _, _, _)
GenerateLoop(acc, total, options, bounds) ==
    IF Len(acc.shapes) >= total THEN acc
    ELSE GenerateLoop(Pushed(acc.shapes, generateShape(acc.rng, options, bounds)),
                      total, options, bounds)

\* The decorative loop: decorativeCount more shapes from the same options.
Decorative(main, options, bounds) ==
    GenerateLoop(main, Len(main.shapes) + DecorativeCount(options.shapeCount),
                 options, bounds)

Shapes(options, bounds) ==
    Decorative(GenerateLoop([shapes |-> <<>>, rng |-> createRng(options.seed)],
                            options.shapeCount, options, bounds),
               options, bounds).shapes

Grid(options) ==
    GridOf(options, Shapes(options, [width |-> options.width, height |-> options.height]))

generateArtGrid(userOptions, now) ==
    Grid(MergeOptions(DEFAULT_OPTIONS(now), userOptions))

(***************************************************************************)
(* Renderer.  Markup is kept structured: an element is a record of its     *)
(* attributes, a list of elements a sequence.  A derived number such as    *)
(* size / 2 is the exact fraction Frac(n, d) of what the code computes in  *)
(* floating point; EmptyMarkup is the empty string ''.                     *)
(***************************************************************************)
JsNull == [null |-> TRUE]
Frac(n, d) == [num |-> n, den |-> d]
EmptyMarkup == [empty |-> TRUE]

\* shape.layer || 1
LayerOrOne(shape) ==
    IF Has(shape, "layer") /\ shape.layer # LayerNum(0) /\ shape.layer # LayerName("")
    THEN shape.layer ELSE LayerNum(1)

\* shape.textureScale ?? 1
TextureScaleOrOne(shape) ==
    IF Has(shape, "textureScale") THEN shape.textureScale ELSE Unit

\* A text property that is present and not empty; a number that is present
\* and not zero.
TruthyText(obj, key) == Has(obj, key) /\ obj[key] # ""
TruthyNum(obj, key) == Has(obj, key) /\ obj[key] # 0

TexturePatterns == {"hatch", "cross-hatch", "dots", "checkerboard", "stripes"}

\* The pattern element of the kind named, from the texture scale num / den:
\* the tile is patternSize wide and high (twice that for the checkerboard),
\* the lines of the hatches are strokeWidth wide, the dot has the radius
\* 0.8 * scale.
PatternElement(id, pattern, color, num, den) ==
    [id |-> id, pattern |-> pattern, color |-> color,
     patternSize |-> Frac(4 * num, den),
     width |-> Frac((IF pattern = "checkerboard" THEN 8 ELSE 4) * num, den),
     height |-> Frac((IF pattern = "checkerboard" THEN 8 ELSE 4) * num, den)]
    @@ (IF pattern \in {"hatch", "cross-hatch"} THEN [strokeWidth |-> Frac(num, 2 * den)]
        ELSE IF pattern = "dots" THEN [r |-> Frac(4 * num, 5 * den)]
        ELSE <<>>)

createBackgroundPatternDef(background, id) ==
    IF background.textureType = "solid" \/ ~TruthyText(background, "pattern")
       \/ background.pattern \notin TexturePatterns
    THEN EmptyMarkup
    ELSE PatternElement(id, background.pattern, background.color,
                        TextureScaleOrOne(background), Unit)

createBackgroundStampPatternDef(background, id) ==
    IF ~TruthyText(background, "stampPath") \/ ~TruthyNum(background, "stampWidth")
       \/ ~TruthyNum(background, "stampHeight")
    THEN EmptyMarkup
    ELSE [id |-> id, path |-> background.stampPath, color |-> background.color,
          width |-> Frac(background.stampWidth * TextureScaleOrOne(background), Unit),
          height |-> Frac(background.stampHeight * TextureScaleOrOne(background), Unit),
          scale |-> Frac(TextureScaleOrOne(background), Unit)]

REFERENCE_SIZE == 50

\* A tile of the size 4 whatever the texture scale.
createPatternDefFixed(shape, id) ==
    IF shape.pattern \notin TexturePatterns THEN EmptyMarkup
    ELSE PatternElement(id, shape.pattern, shape.color, Unit, Unit)

\* The texture pattern of a shape; a stamp's texture scale is multiplied by
\* REFERENCE_SIZE / Math.max(shape.size, 1).
createPatternDef(shape, id) ==
    IF shape.pattern \notin TexturePatterns THEN EmptyMarkup
    ELSE IF shape.type = "stamp" /\ shape.size > 0
    THEN PatternElement(id, shape.pattern, shape.color,
                        TextureScaleOrOne(shape) * REFERENCE_SIZE, Max(shape.size, Unit))
    ELSE PatternElement(id, shape.pattern, shape.color, TextureScaleOrOne(shape), Unit)

\* The invisible square that takes the pointer events of a shape.
HitArea(size) ==
    [tag |-> "rect", class |-> "art-shape-hit-area",
     x |-> Frac(-size, 2), y |-> Frac(-size, 2), width |-> size, height |-> size]

\* A scale that leaves the resolution out.
StampTransformPlain(size, w, h, res) ==
    [translateX |-> Frac(-(w * size), 2 * res * Max(w, h)),
     translateY |-> Frac(-(h * size), 2 * res * Max(w, h)),
     scale |-> Frac(size, Max(w, h))]

\* translate(-centerX * scale, -centerY * scale) scale(scale) of a stamp's
\* path, w by h at resolution res, drawn at the size given.
StampTransform(size, w, h, res) ==
    [translateX |-> Frac(-(w * size * res), 2 * res * Max(w, h)),
     translateY |-> Frac(-(h * size * res), 2 * res * Max(w, h)),
     scale |-> Frac(size * res, Max(w, h))]

\* shape.stampPathResolution || 1
ResolutionOrOne(shape) ==
    IF TruthyNum(shape, "stampPathResolution") THEN shape.stampPathResolution ELSE 1

\* The path element of a stamp: the editor's path when the shape has all
\* three editor fields, else the full-resolution path.
StampPathElement(shape, fill) ==
    IF Has(shape, "stampPathEditor") /\ Has(shape, "stampWidthEditor")
       /\ Has(shape, "stampHeightEditor")
    THEN [tag |-> "path", d |-> shape.stampPathEditor, fill |-> fill,
          transform |-> StampTransform(shape.size, shape.stampWidthEditor,
                                       shape.stampHeightEditor, 1)]
    ELSE [tag |-> "path", d |-> shape.stampPath, fill |-> fill,
          transform |-> StampTransform(shape.size, shape.stampWidth,
                                       shape.stampHeight, ResolutionOrOne(shape))]

\* A fill that names the pattern of the next shape.
PatternFillNext(shape, index) ==
    IF shape.pattern = "solid" THEN shape.color ELSE <<"url", "pattern", index + 1>>

\* fill of the visible element: the colour, or a reference to the pattern
PatternFill(shape, index) ==
    IF shape.pattern = "solid" THEN shape.color ELSE <<"url", "pattern", index>>
StampFill(shape, index) ==
    IF shape.pattern \in TexturePatterns THEN <<"url", "pattern", index>> ELSE shape.color

\* A square drawn from its corner.
PrimitiveFromCorner(shape, index) ==
    IF shape.type = "stamp" /\ TruthyText(shape, "stampPath")
    THEN StampPathElement(shape, StampFill(shape, index))
    ELSE IF shape.type = "circle"
    THEN [tag |-> "circle", cx |-> 0, cy |-> 0, r |-> Frac(shape.size, 2),
          fill |-> PatternFill(shape, index)]
    ELSE [tag |-> "rect", x |-> Frac(0, 1), y |-> Frac(0, 1),
          width |-> shape.size, height |-> shape.size,
          fill |-> PatternFill(shape, index)]

\* The visible element of a shape.
Primitive(shape, index) ==
    IF shape.type = "stamp" /\ TruthyText(shape, "stampPath")
    THEN StampPathElement(shape, StampFill(shape, index))
    ELSE IF shape.type = "circle"
    THEN [tag |-> "circle", cx |-> 0, cy |-> 0, r |-> Frac(shape.size, 2),
          fill |-> PatternFill(shape, index)]
    ELSE [tag |-> "rect", x |-> Frac(-shape.size, 2), y |-> Frac(-shape.size, 2),
          width |-> shape.size, height |-> shape.size,
          fill |-> PatternFill(shape, index)]

\* The group of a shape: its hit area first, then its visible element.
renderShape(shape, index) ==
    [dataId |-> shape.id, dataLayer |-> LayerOrOne(shape),
     dataPlanX |-> shape.x, dataPlanY |-> shape.y,
     transform |-> [translateX |-> shape.x, translateY |-> shape.y,
                    rotate |-> shape.rotation],
     children |-> <<HitArea(shape.size), Primitive(shape, index)>>]

(***************************************************************************)
(* Text.  A text is a record saying how it was made:                       *)
(*   [json |-> v]    JSON.stringify's text of the value v;                 *)
(*   [uri |-> t]     encodeURIComponent's text of the text t;              *)
(*   [b64 |-> t]     btoa's text of the text t;                            *)
(*   [padded |-> t]  t between white space;                                *)
(*   [chars |-> s]   the literal characters s.                             *)
(* A call that may throw yields Ok(value) or Thrown.                       *)
(***************************************************************************)
Ok(v) == [threw |-> FALSE, value |-> v]
Thrown == [threw |-> TRUE]

BlankChars == {"", " ", "\n\t "}
MalformedEscapes == {"%", "%E0%A4%A"}

\* JSON.stringify: a number that is NaN is written as null (a property that
\* is undefined, absent from the record, is left out).
JsonNumber(n) == IF Has(n, "nan") /\ n.nan THEN JsNull ELSE n
JsonStringify(metadata) == [json |-> [metadata EXCEPT !.seed = JsonNumber(@)]]

encodeURIComponent(text) == [uri |-> text]
btoa(text) == [b64 |-> text]

\* String.prototype.trim
RECURSIVE Trim(_)
Trim(text) ==
    IF Has(text, "padded") THEN Trim(text.padded)
    ELSE IF Has(text, "chars") /\ text.chars \in BlankChars THEN [chars |-> ""]
    ELSE text

\* atob throws unless the text is base64.
atob(text) == IF Has(text, "b64") THEN Ok(text.b64) ELSE Thrown

\* decodeURIComponent throws on a malformed escape sequence; a text without
\* escapes is returned as it is.
decodeURIComponent(text) ==
    IF Has(text, "uri") THEN Ok(text.uri)
    ELSE IF Has(text, "chars") /\ text.chars \in MalformedEscapes THEN Thrown
    ELSE Ok(text)

\* JSON.parse throws unless the text is JSON.
JsonParse(text) == IF Has(text, "json") THEN Ok(text.json) ELSE Thrown

\* JSON.parse(decodeURIComponent(atob(encoded))): the first call that
\* throws ends the evaluation.
ParsePayload(encoded) ==
    IF atob(encoded).threw THEN Thrown
    ELSE IF decodeURIComponent(atob(encoded).value).threw THEN Thrown
    ELSE JsonParse(decodeURIComponent(atob(encoded).value).value)

encodePlanMetadata(metadata) == btoa(encodeURIComponent(JsonStringify(metadata)))
encodeSvgMetadata(metadata) == btoa(encodeURIComponent(JsonStringify(metadata)))

\* The entry of a shape in the metadata, without the stamp fields.
MetadataShapeNoStamp(shape) ==
    PickFields(shape, {"id", "type", "x", "y", "size", "color", "pattern", "rotation"})
    @@ [layer |-> LayerOrOne(shape), textureScale |-> TextureScaleOrOne(shape)]

\* The entry of a shape in the metadata.
MetadataShape(shape) ==
    PickFields(shape, {"id", "type", "x", "y", "size", "color", "pattern", "rotation"})
    @@ [layer |-> LayerOrOne(shape), textureScale |-> TextureScaleOrOne(shape)]
    @@ (IF shape.type # "stamp" THEN <<>>
        ELSE IF Has(shape, "stampPathEditor")
        THEN PickFields(shape, StampDefFields \cup StampEditorFields)
        ELSE PickFields(shape, StampDefFields))

\* grid.background ?? { color: '#000000', textureType: 'solid' }
BackgroundOf(grid) ==
    IF Has(grid, "background") THEN grid.background
    ELSE [color |-> "#000000", textureType |-> "solid"]

MetadataOf(grid) ==
    [seed |-> grid.meta.seed,
     background |-> BackgroundOf(grid),
     shapes |-> [i \in DOMAIN grid.shapes |-> MetadataShape(grid.shapes[i])]]

\* background.color || '#000000', or the reference to the background's pattern
BackgroundFill(background) ==
    IF background.textureType = "pattern" /\ TruthyText(background, "pattern")
    THEN <<"url", "bg-pattern">>
    ELSE IF background.textureType = "stamp" /\ TruthyText(background, "stampPath")
    THEN <<"url", "bg-stamp">>
    ELSE IF TruthyText(background, "color") THEN background.color ELSE "#000000"

BackgroundPatternDef(background) ==
    IF background.textureType = "pattern" /\ TruthyText(background, "pattern")
    THEN createBackgroundPatternDef(background, "bg-pattern")
    ELSE IF background.textureType = "stamp" /\ TruthyText(background, "stampPath")
    THEN createBackgroundStampPatternDef(background, "bg-stamp")
    ELSE EmptyMarkup

\* "0 0 width height", in fixed point
NativeViewBox(width, height) ==
    [minX |-> 0, minY |-> 0, width |-> width * Unit, height |-> height * Unit]

\* The document: the svg element with its attributes, the metadata
\* element's text, the definitions, the background and the shapes' groups.
renderArtGridSvg(grid) ==
    [width |-> grid.meta.width, height |-> grid.meta.height,
     viewBox |-> NativeViewBox(grid.meta.width, grid.meta.height),
     baseViewBox |-> NativeViewBox(grid.meta.width, grid.meta.height),
     metadata |-> encodePlanMetadata(MetadataOf(grid)),
     bgPatternDef |-> BackgroundPatternDef(BackgroundOf(grid)),
     patterns |-> [i \in DOMAIN grid.shapes |-> createPatternDef(grid.shapes[i], i - 1)],
     bgFill |-> BackgroundFill(BackgroundOf(grid)),
     shapes |-> [i \in DOMAIN grid.shapes |-> renderShape(grid.shapes[i], i - 1)]]

(***************************************************************************)
(* The renderer of the bounded-placement variant: no texture scale, no     *)
(* layers, no stamps, no background.                                       *)
(***************************************************************************)
\* createPatternDef: patternSize = 4 and strokeWidth = 0.5 for every shape
createPatternDefBounded(shape, id) ==
    IF shape.pattern \notin TexturePatterns THEN EmptyMarkup
    ELSE PatternElement(id, shape.pattern, shape.color, Unit, Unit)

\* renderShape: a group with data-id and transform around a circle or a rect
renderShapeBounded(shape, index) ==
    [dataId |-> shape.id,
     transform |-> [translateX |-> shape.x, translateY |-> shape.y,
                    rotate |-> shape.rotation],
     children |->
        <<IF shape.type = "circle"
          THEN [tag |-> "circle", cx |-> 0, cy |-> 0, r |-> Frac(shape.size, 2),
                fill |-> PatternFill(shape, index)]
          ELSE [tag |-> "rect", x |-> Frac(-shape.size, 2), y |-> Frac(-shape.size, 2),
                width |-> shape.size, height |-> shape.size,
                fill |-> PatternFill(shape, index)]>>]

\* The metadata of the variant: the seed, and eight fields of every shape.
MetadataOfBounded(grid) ==
    [seed |-> grid.meta.seed,
     shapes |-> [i \in DOMAIN grid.shapes |->
                    PickFields(grid.shapes[i], {"id", "type", "x", "y", "size", "color",
                                                "pattern", "rotation"})]]

renderArtGridSvgBounded(grid) ==
    [width |-> grid.meta.width, height |-> grid.meta.height,
     viewBox |-> NativeViewBox(grid.meta.width, grid.meta.height),
     baseViewBox |-> NativeViewBox(grid.meta.width, grid.meta.height),
     metadata |-> encodePlanMetadata(MetadataOfBounded(grid)),
     patterns |-> [i \in DOMAIN grid.shapes |->
                      createPatternDefBounded(grid.shapes[i], i - 1)],
     bgFill |-> "#000000",
     shapes |-> [i \in DOMAIN grid.shapes |-> renderShapeBounded(grid.shapes[i], i - 1)]]

\* decodeSvgMetadata without its try / catch.
decodeSvgMetadataUncaught(svgElement) ==
    IF svgElement = JsNull \/ ~Has(svgElement, "metadata") THEN Ok(JsNull)
    ELSE IF Trim(svgElement.metadata) = [chars |-> ""] THEN Ok(JsNull)
    ELSE ParsePayload(Trim(svgElement.metadata))

\* What the call returns, or that it threw.
decodeSvgMetadata(svgElement) ==
    IF svgElement = JsNull \/ ~Has(svgElement, "metadata") THEN Ok(JsNull)
    ELSE IF Trim(svgElement.metadata) = [chars |-> ""] THEN Ok(JsNull)
    ELSE IF ParsePayload(Trim(svgElement.metadata)).threw
    THEN Ok(JsNull)
    ELSE ParsePayload(Trim(svgElement.metadata))

(***************************************************************************)
(* Input fields of the tool.  A field's value is FieldNaN when              *)
(* Number(input.value) is not a finite number, else FieldNum(t) for the     *)
(* number t / 2 (so that halves reach Math.round).                          *)
(***************************************************************************)
FieldNum(twice) == [nan |-> FALSE, twice |-> twice]
FieldInt(n) == FieldNum(2 * n)
FieldNaN == [nan |-> TRUE, twice |-> 0]

\* Math.round(n) for n = twice / 2
MathRound(twice) == (twice + 1) \div 2

readPositiveInt(input, fallback) ==
    IF input.nan THEN fallback
    ELSE LET v == MathRound(input.twice)
         IN  IF v > 0 THEN v ELSE fallback

\* The rounded number without the bounds.
readBoundedIntRounded(input, fallback, min, max) ==
    IF input.nan THEN fallback ELSE MathRound(input.twice)

readBoundedInt(input, fallback, min, max) ==
    IF input.nan THEN fallback
    ELSE Max(min, Min(max, MathRound(input.twice)))

\* The options object of generate() in the tool that drives the bounded engine.
ReadOptionsBounded(fields, now) ==
    [seed |-> SeedNum(readPositiveInt(fields.seed, now)),
     width |-> readPositiveInt(fields.width, 420),
     height |-> readPositiveInt(fields.height, 920),
     shapeCount |-> readBoundedInt(fields.shapeCount, 80, 20, 200),
     minSize |-> readBoundedInt(fields.minSize, 8, 2, 100),
     maxSize |-> readBoundedInt(fields.maxSize, 120, 10, 300)]

(***************************************************************************)
(* State.                                                                  *)
(***************************************************************************)
VARIABLES
    defaultSeed,  \* DEFAULT_OPTIONS.seed: Date.now() when the engine module was evaluated
    engine,       \* the engine the caller imports: "spread" or "bounded"
    caller,       \* "library": a direct call; "tool": options read from the tool's fields
    options,      \* the options object the caller passes to generateArtGrid
    calls,        \* the calls made with it, oldest first: what each returned,
                  \* and the module's default seed at the call
    grid,         \* the composition handed to the renderer, JsNull before there is one
    svg,          \* the svg element of the document, JsNull when there is none
    decoded,      \* the last call of decodeSvgMetadata: the document and the
                  \* composition it was made for, and what the call returned
    fields,            \* the values of the tool's input fields
    background,        \* the background object of the tool
    latestSvg,         \* the markup last kept for saving, JsNull for ''
    selectedShapeIds,  \* the ids of the selected shapes
    selectedLayer,     \* the selected layer, JsNull when none is
    dragState,         \* the gesture in progress, JsNull when none is
    isGenerating,      \* generate() is running
    stampMode,         \* the stamp tool is active
    stampShape,        \* the stamp picked from the sheet, JsNull when none is
    metadata,          \* the metadata object the document's handlers close over
    viewBox,           \* the view box the document's handlers close over
    frames,            \* the callbacks waiting for their animation frames, oldest first
    clock,             \* the number of random seeds and shape ids drawn so far
    events,            \* the number of user events handled so far
    generateCall,      \* the last completed generate(): the stamp shapes of the
                       \* document when it was called and when it resumed, the
                       \* layer selected then, and the shapes it showed
    localStorage,      \* window.localStorage: the text stored under each key
    fault              \* the last exception a call of the engine raised in the
                       \* tool: the call site, whether a catch clause of the
                       \* tool caught it and the status message written for
                       \* it ("" when none was); JsNull when none was raised
    , overlay,         \* the loading overlay is visible
    controlsDisabled,  \* what setGeneratingState set last: the disabled flag of
                       \* the randomize, generate-new, save and delete buttons
    sheetImage,        \* a stamp sheet is loaded (getStampPool() is not empty)
    download           \* the svg text that runExport handed to downloadSvg
                       \* last; JsNull when nothing was exported

generatorVars == <<defaultSeed, engine, caller, options, calls>>
codecVars == <<grid, svg, decoded>>
toolState ==
    <<fields, background, latestSvg, selectedShapeIds, selectedLayer, dragState,
      isGenerating, stampMode, stampShape, metadata, viewBox, frames, generateCall,
      fault, overlay, controlsDisabled, sheetImage, download>>
toolVars == <<toolState, clock, events, localStorage>>
vars == <<generatorVars, codecVars, toolVars>>

\* No document yet.
CodecIdle == grid = JsNull /\ svg = JsNull /\ decoded = JsNull

\* No tool is mounted.
ToolIdle ==
    /\ fields = JsNull /\ background = JsNull /\ latestSvg = JsNull
    /\ selectedShapeIds = {} /\ selectedLayer = JsNull /\ dragState = JsNull
    /\ isGenerating = FALSE /\ stampMode = FALSE /\ stampShape = JsNull
    /\ metadata = JsNull /\ viewBox = JsNull /\ frames = <<>>
    /\ clock = 0 /\ events = 0 /\ generateCall = JsNull
    /\ localStorage = <<>>
    /\ fault = JsNull
    /\ overlay = FALSE /\ controlsDisabled = FALSE /\ sheetImage = FALSE
    /\ download = JsNull

(***************************************************************************)
(* Inputs of the generator's callers.                                      *)
(***************************************************************************)
MaxShapeCount == 4
MaxCalls == 2
LoadTimes == 2

\* Date.now() at the evaluations of the engine module
LoadSeeds == {SeedNum(1700000000 + t) : t \in 1..LoadTimes}

Seeds == {SeedNum(42), SeedNum(0), SeedNum(-5), SeedWide(1, WordOf(42)), SeedNum(7907)}
SizeRanges == {<<8, 120>>, <<10, 10>>, <<100, 300>>}
Spreads == {SpreadNaN, SpreadNum(0), SpreadNum(5), SpreadNum(-50), SpreadNum(70),
            SpreadNum(100), SpreadNum(250)}

StampPool ==
    <<[stampPath |-> "M0 0L4 0L4 4Z", stampWidth |-> 4, stampHeight |-> 4],
      [stampPath |-> "M0 0L8 0L8 2Z", stampWidth |-> 8, stampHeight |-> 2,
       stampPathResolution |-> 2, stampPathEditor |-> "M0 0L2 0L2 1Z",
       stampWidthEditor |-> 2, stampHeightEditor |-> 1]>>

\* A pool whose path is drawn at half-pixel resolution, and pools of a
\* stamp without a usable path.
HalfPixelPool ==
    <<[stampPath |-> "M0,0h0.5v0.5h-0.5z", stampWidth |-> 6, stampHeight |-> 4,
       stampPathResolution |-> 2]>>
EmptyPathPool == <<[stampPath |-> "", stampWidth |-> 4, stampHeight |-> 4]>>
NoPathPool == <<[stampWidth |-> 4, stampHeight |-> 4]>>

BaseConfigurations ==
    {[seed |-> s, shapeCount |-> n, width |-> 100, height |-> 200,
      minSize |-> r[1], maxSize |-> r[2]] :
        s \in Seeds, n \in 0..MaxShapeCount, r \in SizeRanges}

\* no seed: the module's default seed is used
SeedlessConfigurations ==
    {[shapeCount |-> MaxShapeCount, width |-> 100, height |-> 200]}

SpreadBase ==
    [seed |-> SeedNum(42), shapeCount |-> MaxShapeCount, width |-> 100, height |-> 200]

SpreadConfigurations ==
    {SpreadBase @@ [spread |-> sp] : sp \in Spreads}
    \cup {SpreadBase @@ [randomRotation |-> FALSE],
          SpreadBase @@ [stamps |-> StampPool],
          SpreadBase @@ [stamps |-> <<>>],
          [SpreadBase EXCEPT !.seed = SeedNaN]}

FieldSettings ==
    {[seed |-> FieldInt(42), width |-> w, height |-> FieldInt(100),
      shapeCount |-> FieldInt(0), minSize |-> FieldInt(100), maxSize |-> m] :
        w \in {FieldInt(100), FieldNum(841), FieldNaN},
        m \in {FieldInt(120), FieldInt(300)}}

Callers ==
    {[engine |-> e, caller |-> "library", options |-> o] :
        e \in {"spread", "bounded"},
        o \in BaseConfigurations \cup SeedlessConfigurations}
    \cup {[engine |-> "spread", caller |-> "library", options |-> o] :
            o \in SpreadConfigurations}
    \cup {[engine |-> "bounded", caller |-> "tool",
           options |-> ReadOptionsBounded(f, 1700000000)] : f \in FieldSettings}

(***************************************************************************)
(* The generator and its callers.                                          *)
(***************************************************************************)
GeneratorInit ==
    /\ defaultSeed \in LoadSeeds
    /\ \E c \in Callers :
          /\ engine = c.engine
          /\ caller = c.caller
          /\ options = c.options
    /\ calls = <<>>
    /\ CodecIdle
    /\ ToolIdle

Returned(result) ==
    /\ Len(calls) < MaxCalls
    /\ calls' = Append(calls, [result |-> result, defaultSeed |-> defaultSeed])
    /\ UNCHANGED <<defaultSeed, engine, caller, options, codecVars, toolVars>>

CallGenerateArtGrid ==
    /\ engine = "spread"
    /\ Returned(generateArtGrid(options, defaultSeed))

CallGenerateArtGridBounded ==
    /\ engine = "bounded"
    /\ Returned(generateArtGridBounded(options, defaultSeed))

\* The engine module is evaluated again (a new page load): DEFAULT_OPTIONS is
\* rebuilt with the time of that evaluation.
EvaluateModule(now) ==
    /\ defaultSeed' = now
    /\ UNCHANGED <<engine, caller, options, calls, codecVars, toolVars>>

GeneratorNext ==
    \/ CallGenerateArtGrid
    \/ CallGenerateArtGridBounded
    \/ \E now \in LoadSeeds : EvaluateModule(now)

GeneratorSpec == GeneratorInit /\ [][GeneratorNext]_vars

(***************************************************************************)
(* Properties of the generator.                                            *)
(***************************************************************************)
Results == {calls[i].result : i \in DOMAIN calls}

\* The size range in force: the caller's, else the defaults 8 and 120.
MinSizeGiven == IF Has(options, "minSize") THEN options.minSize ELSE 8
MaxSizeGiven == IF Has(options, "maxSize") THEN options.maxSize ELSE 120

\* C1: for options that include the seed, any two calls of generateArtGrid
\* return equal meta and shape lists of the same length whose shapes agree
\* field by field, in the same order, whatever the module's default seed was
\* at each call.
Determinism ==
    Has(options, "seed") =>
        \A i, j \in DOMAIN calls :
            /\ calls[i].result.meta = calls[j].result.meta
            /\ Len(calls[i].result.shapes) = Len(calls[j].result.shapes)
            /\ \A n \in DOMAIN calls[i].result.shapes :
                  calls[i].result.shapes[n] = calls[j].result.shapes[n]

\* Two calls with a seed made under different default seeds, returning stamps.
DeterminismWitness ==
    /\ Has(options, "seed")
    /\ Len(calls) = 2
    /\ calls[1].defaultSeed # calls[2].defaultSeed
    /\ \E n \in DOMAIN calls[2].result.shapes : calls[2].result.shapes[n].type = "stamp"

\* C2: a call with shapeCount N returns exactly N + floor(N * 0.3) shapes and
\* meta.shapeCount is the length of the returned list.
ShapeCountLaw ==
    \A r \in Results :
        /\ Len(r.shapes) = options.shapeCount + (options.shapeCount * 3) \div 10
        /\ r.meta.shapeCount = Len(r.shapes)

\* A call whose decorative pass added a shape.
ShapeCountWitness ==
    \E r \in Results :
        /\ options.shapeCount = MaxShapeCount
        /\ Len(r.shapes) > options.shapeCount

\* C8 as stated: with minSize <= maxSize every returned shape, of the main
\* and of the decorative pass, has an integer size within minSize..maxSize.
SizeRangeBothPasses ==
    MinSizeGiven <= MaxSizeGiven =>
        \A r \in Results : \A n \in DOMAIN r.shapes :
            /\ r.shapes[n].size % Unit = 0
            /\ MinSizeGiven * Unit <= r.shapes[n].size
            /\ r.shapes[n].size <= MaxSizeGiven * Unit

\* C8, as the engines have it: with minSize <= maxSize every size is an
\* integer; it lies within minSize..maxSize for every shape of the spread
\* engine and for the main pass of the bounded engine, and within 2..12 for
\* the decorative pass of the bounded engine.
SizeRangeByEngine ==
    MinSizeGiven <= MaxSizeGiven =>
        \A r \in Results : \A n \in DOMAIN r.shapes :
            /\ r.shapes[n].size % Unit = 0
            /\ IF engine = "bounded" /\ n > options.shapeCount
               THEN 2 * Unit <= r.shapes[n].size /\ r.shapes[n].size <= 12 * Unit
               ELSE /\ MinSizeGiven * Unit <= r.shapes[n].size
                    /\ r.shapes[n].size <= MaxSizeGiven * Unit

\* A decorative shape of the bounded engine smaller than minSize.
SizeRangeWitness ==
    /\ engine = "bounded"
    /\ MinSizeGiven <= MaxSizeGiven
    /\ \E r \in Results : \E n \in DOMAIN r.shapes :
          /\ n > options.shapeCount
          /\ r.shapes[n].size < MinSizeGiven * Unit

\* C9: in the bounded engine, for the options the tool passes, every shape
\* has size/2 <= x <= width - size/2 and size/2 <= y <= height - size/2.
BoundedPlacement ==
    (engine = "bounded" /\ caller = "tool") =>
        \A r \in Results : \A n \in DOMAIN r.shapes :
            /\ r.shapes[n].size <= 2 * r.shapes[n].x
            /\ 2 * r.shapes[n].x <= 2 * options.width * Unit - r.shapes[n].size
            /\ r.shapes[n].size <= 2 * r.shapes[n].y
            /\ 2 * r.shapes[n].y <= 2 * options.height * Unit - r.shapes[n].size

\* The spread the claim says is in force, in hundredths.
SpreadInForce ==
    IF ~Has(options, "spread") THEN 100
    ELSE IF options.spread.nan \/ options.spread.v = 0 THEN 100
    ELSE IF options.spread.v < 10 THEN 10
    ELSE options.spread.v

ExtentInForce == (SpreadInForce * ((Min(options.width, options.height) * Unit) \div 2)) \div 100

\* C10: in the spread engine every shape has |x - width/2| <= extent and
\* |y - height/2| <= extent, extent = spread * min(width, height) / 2 with
\* the spread never below 0.1 and 1 when missing, zero or not numeric; with
\* spread <= 1 every centre lies inside the canvas.
SpreadPlacement ==
    engine = "spread" =>
        \A r \in Results : \A n \in DOMAIN r.shapes :
            /\ Abs(2 * r.shapes[n].x - options.width * Unit) <= 2 * ExtentInForce
            /\ Abs(2 * r.shapes[n].y - options.height * Unit) <= 2 * ExtentInForce
            /\ SpreadInForce <= 100 =>
                  /\ 0 <= r.shapes[n].x /\ r.shapes[n].x <= options.width * Unit
                  /\ 0 <= r.shapes[n].y /\ r.shapes[n].y <= options.height * Unit

\* A spread below 0.1 was given and a shape lies farther from the centre
\* than that spread would allow.
SpreadWitness ==
    /\ engine = "spread"
    /\ Has(options, "spread")
    /\ ~options.spread.nan /\ options.spread.v > 0 /\ options.spread.v < 10
    /\ \E r \in Results : \E n \in DOMAIN r.shapes :
          100 * Abs(2 * r.shapes[n].x - options.width * Unit)
              > 2 * options.spread.v * ((Min(options.width, options.height) * Unit) \div 2)

\* C11: no two shapes of a generated composition share an id.
IdsUnique ==
    \A r \in Results : \A i, j \in DOMAIN r.shapes :
        i # j => r.shapes[i].id # r.shapes[j].id

\* The shape carries the definition of the stamp: the same fields with the
\* same values.
CarriesStamp(shape, stamp) ==
    \A f \in {"stampPath", "stampWidth", "stampHeight", "stampPathResolution"} :
        /\ Has(shape, f) <=> Has(stamp, f)
        /\ Has(stamp, f) => shape[f] = stamp[f]

\* C12: in the engine that takes a stamp pool, with a non-empty options.stamps
\* every returned shape has the type 'stamp' and carries stampPath,
\* stampWidth, stampHeight and stampPathResolution of one member of the pool;
\* with options.stamps absent or empty every returned shape is a 'rect' or a
\* 'circle' and has no stamp field.
StampPoolSwitch ==
    engine = "spread" =>
        \A r \in Results : \A n \in DOMAIN r.shapes :
            IF Has(options, "stamps") /\ options.stamps # <<>>
            THEN /\ r.shapes[n].type = "stamp"
                 /\ \E m \in DOMAIN options.stamps :
                       CarriesStamp(r.shapes[n], options.stamps[m])
            ELSE /\ r.shapes[n].type \in {"rect", "circle"}
                 /\ \A f \in {"stampPath", "stampWidth", "stampHeight",
                              "stampPathResolution", "stampPathEditor",
                              "stampWidthEditor", "stampHeightEditor"} :
                       ~Has(r.shapes[n], f)

\* A call with a pool of two stamps returned shapes of both of them.
StampPoolWitness ==
    /\ engine = "spread"
    /\ Has(options, "stamps") /\ Len(options.stamps) = 2
    /\ \E r \in Results : \E i, j \in DOMAIN r.shapes :
          /\ r.shapes[i].stampPath = options.stamps[1].stampPath
          /\ r.shapes[j].stampPath = options.stamps[2].stampPath

(***************************************************************************)
(* The reference recurrence, on words written as their 32 bits (bit 0 the  *)
(* least significant).                                                     *)
(***************************************************************************)
StreamLength == 12

BitsOf(w) ==
    [i \in 0..31 |-> IF i < 16 THEN (w[2] \div 2^i) % 2 ELSE (w[1] \div 2^(i - 16)) % 2]

RECURSIVE BitsValue(_, _, _)
BitsValue(b, from, n) ==
    IF n = 0 THEN 0 ELSE b[from] + 2 * BitsValue(b, from + 1, n - 1)

WordOfBits(b) == <<BitsValue(b, 16, 16), BitsValue(b, 0, 16)>>

\* -v modulo 2^32: the bits above the lowest bit that is set are inverted.
RefNeg(b) ==
    [i \in 0..31 |->
        IF \E j \in 0..31 : j < i /\ b[j] = 1 THEN 1 - b[i] ELSE b[i]]

\* s := seed mod 2^32, 0 replaced by 1
RefSeed(seed) ==
    LET m == IF seed.neg THEN RefNeg(BitsOf(seed.low)) ELSE BitsOf(seed.low)
    IN  IF \A i \in 0..31 : m[i] = 0 THEN [i \in 0..31 |-> IF i = 0 THEN 1 ELSE 0] ELSE m

RefXor(a, b) == [i \in 0..31 |-> (a[i] + b[i]) % 2]
RefShl(b, k) == [i \in 0..31 |-> IF i >= k THEN b[i - k] ELSE 0]
RefShr(b, k) == [i \in 0..31 |-> IF i + k <= 31 THEN b[i + k] ELSE 0]

\* s ^= s << 13, s ^= s >>> 17, s ^= s << 5
RefXorShl(s, k) == RefXor(s, RefShl(s, k))
RefXorShr(s, k) == RefXor(s, RefShr(s, k))
RefStep(s) == RefXorShl(RefXorShr(RefXorShl(s, 13), 17), 5)

\* <<s1, ..., sn>>: the first n values of s that the reference emits (as
\* s / 2^32); acc[1] is s before the first call.
RECURSIVE RefStream(_, _)
RefStream(acc, n) ==
    IF Len(acc) > n THEN Tail(acc)
    ELSE RefStream(Append(acc, RefStep(acc[Len(acc)])), n)

\* The seed of the i-th call: options.seed, else the module's default seed.
SeedOfCall(i) ==
    IF Has(options, "seed") THEN options.seed ELSE calls[i].defaultSeed

\* The draw that names the first shape: the ninth of a shape with a
\* rotation draw, else the eighth.
IdDraw == IF Has(options, "randomRotation") /\ ~options.randomRotation THEN 8 ELSE 9

\* C20: for every numeric seed the stream of createRng(seed) is the stream
\* of the reference recurrence: the states agree draw by draw, and the id
\* of the first shape of a composition of the current engine is made from
\* the reference's draw.
ReferenceStream ==
    \A i \in DOMAIN calls :
        ~SeedOfCall(i).nan =>
            \E ref \in {RefStream(<<RefSeed(SeedOfCall(i))>>, StreamLength)} :
                /\ Draws(<<createRng(SeedOfCall(i))>>, StreamLength)
                      = [k \in 1..StreamLength |-> WordOfBits(ref[k])]
                /\ (engine = "spread" /\ calls[i].result.shapes # <<>>) =>
                      calls[i].result.shapes[1].id
                          = <<"shape", MulFloor(WordOfBits(ref[IdDraw]), 1000000)>>

\* A composition was generated from the seed 0, whose stream starts in the
\* state 1.
ReferenceStreamWitness ==
    /\ calls # <<>>
    /\ engine = "spread"
    /\ Has(options, "seed") /\ options.seed = SeedNum(0)
    /\ calls[1].result.shapes # <<>>
    /\ createRng(options.seed) = OneWord
    /\ \E ref \in {RefStream(<<BitsOf(OneWord)>>, 9)} :
          calls[1].result.shapes[1].id = <<"shape", MulFloor(WordOfBits(ref[9]), 1000000)>>

\* C21: for every seed (0, negative, not numeric and above 2^32 - 1
\* included) the state of the stream is never 0, before the first draw and
\* after each draw, and every value state / 2^32 that is emitted is at
\* least 0 and below 1: the state is a word of 32 bits, and every id made
\* as floor(1000000 * value) is in 0..999999.
NoDegenerateStream ==
    \A i \in DOMAIN calls :
        /\ createRng(SeedOfCall(i)) # ZeroWord
        /\ \E drawn \in {Draws(<<createRng(SeedOfCall(i))>>, StreamLength)} :
              \A k \in DOMAIN drawn :
                  /\ drawn[k] # ZeroWord
                  /\ drawn[k][1] \in 0..(Half - 1)
                  /\ drawn[k][2] \in 0..(Half - 1)
        /\ \A n \in DOMAIN calls[i].result.shapes :
              calls[i].result.shapes[n].id[2] \in 0..999999

\* A composition was generated from a seed that is not a number: the
\* stream started in the state 1.
NoDegenerateStreamWitness ==
    /\ calls # <<>>
    /\ Has(options, "seed") /\ options.seed.nan
    /\ createRng(options.seed) = OneWord
    /\ calls[1].result.shapes # <<>>

\* The options in force in the call i: { ...DEFAULT_OPTIONS, ...userOptions }
OptionsOfCall(i) == MergeOptions(DEFAULT_OPTIONS(calls[i].defaultSeed), options)

\* The number of draws one shape takes: nine, and the rotation's.
DrawsOfShape(o) == IF o.randomRotation THEN 10 ELSE 9

\* The shape made from d, the states after each of a shape's draws, when
\* the id is made from the draw idAt and the kind from the draw kindAt.
ShapeOfStream(d, o, idAt, kindAt) ==
    LET bounds == [width |-> o.width, height |-> o.height]
    IN  KindOfDraw(d[kindAt], o)
        @@ [CommonOfDraws(d, DrawsOfShape(o) - 9, Extent(o, bounds), o, bounds)
               EXCEPT !.id = ShapeId(d[idAt])]

\* Every composition of the current engine is the one read off the single
\* stream of its seed: the n-th shape, decorative or not, from the n-th
\* run of draws, the id from the draw idBack before the last and the kind
\* from the draw kindBack before the last.
ReadOffStream(idBack, kindBack) ==
    \A i \in DOMAIN calls :
        engine = "spread" =>
            \E o \in {OptionsOfCall(i)} :
            \E shapes \in {calls[i].result.shapes} :
            \E stream \in {Draws(<<createRng(o.seed)>>, Len(shapes) * DrawsOfShape(o))} :
               /\ Len(shapes) = o.shapeCount + DecorativeCount(o.shapeCount)
               /\ \A n \in DOMAIN shapes :
                     \E d \in {SubSeq(stream, (n - 1) * DrawsOfShape(o) + 1,
                                      n * DrawsOfShape(o))} :
                        shapes[n] = ShapeOfStream(d, o, DrawsOfShape(o) - idBack,
                                                  DrawsOfShape(o) - kindBack)

StreamOrderNoRotation ==
    /\ engine = "spread"
    /\ calls # <<>>
    /\ Has(options, "randomRotation") /\ ~options.randomRotation
    /\ calls[1].result.shapes # <<>>

(***************************************************************************)
(* Documents handed to the decoder.                                        *)
(***************************************************************************)
\* getBackground() of the tool: solid, patterned and stamped backgrounds
Backgrounds ==
    {[color |-> "#000000", textureType |-> "solid", pattern |-> "dots",
      textureScale |-> Unit],
     [color |-> "#ff0000", textureType |-> "pattern", pattern |-> "hatch",
      textureScale |-> 2 * Unit],
     [color |-> "#00ff00", textureType |-> "stamp", pattern |-> "dots",
      textureScale |-> Unit, stampPath |-> "M0,0h1v1h-1z", stampWidth |-> 6,
      stampHeight |-> 4]}

CodecConfigurations ==
    {SpreadBase @@ [stamps |-> StampPool],
     SpreadBase @@ [stamps |-> HalfPixelPool],
     SpreadBase @@ [stamps |-> EmptyPathPool],
     SpreadBase @@ [stamps |-> NoPathPool],
     SpreadBase,
     [SpreadBase EXCEPT !.seed = SeedNum(-5)],
     [SpreadBase EXCEPT !.seed = SeedWide(1, WordOf(42))],
     [SpreadBase EXCEPT !.seed = SeedNaN],
     [SpreadBase EXCEPT !.shapeCount = 0]}

\* Texts of a metadata element that do not come from the renderer.
ForeignTexts ==
    {[chars |-> c] : c \in BlankChars}
    \cup {[chars |-> "not base64!"],
          [b64 |-> [chars |-> "%E0%A4%A"]],
          [b64 |-> [uri |-> [chars |-> "{oops"]]],
          [b64 |-> [chars |-> "{oops"]],
          [b64 |-> [json |-> [seed |-> SeedNum(7), shapes |-> <<>>]]],
          [b64 |-> [uri |-> [json |-> JsNull]]]}

CodecInit ==
    /\ defaultSeed \in LoadSeeds
    /\ engine = "spread"
    /\ caller = "library"
    /\ options \in CodecConfigurations
    /\ calls = <<>>
    /\ CodecIdle
    /\ ToolIdle

\* const grid = generateArtGrid(options), left without a background
Compose ==
    /\ calls # <<>>
    /\ grid' = calls[Len(calls)].result
    /\ svg' = JsNull
    /\ decoded' = JsNull
    /\ UNCHANGED <<generatorVars, toolVars>>

\* grid.background = getBackground()
SetBackground(bg) ==
    /\ grid # JsNull
    /\ grid' = ("background" :> bg) @@ grid
    /\ svg' = JsNull
    /\ decoded' = JsNull
    /\ UNCHANGED <<generatorVars, toolVars>>

\* setSvgContent(renderArtGridSvg(grid))
Render ==
    /\ grid # JsNull
    /\ svg' = renderArtGridSvg(grid)
    /\ decoded' = JsNull
    /\ UNCHANGED <<generatorVars, grid, toolVars>>

\* The metadata element's text is replaced (a document from elsewhere).
ReplaceMetadataText(text) ==
    /\ svg # JsNull
    /\ svg' = ("metadata" :> text) @@ svg
    /\ decoded' = JsNull
    /\ UNCHANGED <<generatorVars, grid, toolVars>>

\* White space is put around the metadata element's text.
PadMetadataText ==
    /\ svg # JsNull
    /\ Has(svg, "metadata")
    /\ ~Has(svg.metadata, "padded")
    /\ svg' = [svg EXCEPT !.metadata = [padded |-> @]]
    /\ decoded' = JsNull
    /\ UNCHANGED <<generatorVars, grid, toolVars>>

\* The metadata element is removed from the document.
RemoveMetadata ==
    /\ svg # JsNull
    /\ Has(svg, "metadata")
    /\ svg' = [k \in DOMAIN svg \ {"metadata"} |-> svg[k]]
    /\ decoded' = JsNull
    /\ UNCHANGED <<generatorVars, grid, toolVars>>

\* const metadata = decodeSvgMetadata(svg)
Decode ==
    /\ decoded = JsNull
    /\ decoded' = [svg |-> svg, grid |-> grid, outcome |-> decodeSvgMetadata(svg)]
    /\ UNCHANGED <<generatorVars, grid, svg, toolVars>>

CodecNext ==
    \/ CallGenerateArtGrid
    \/ Compose
    \/ \E bg \in Backgrounds : SetBackground(bg)
    \/ Render
    \/ \E text \in ForeignTexts : ReplaceMetadataText(text)
    \/ PadMetadataText
    \/ RemoveMetadata
    \/ Decode

CodecSpec == CodecInit /\ [][CodecNext]_vars

(***************************************************************************)
(* The pattern tiles of a composition whose texture scales a caller        *)
(* doubles between two renderings, with the renderer of either variant of  *)
(* the engine.                                                             *)
(***************************************************************************)
\* The largest texture scale a caller sets, in fixed point: 4.
MaxTextureScale == 256

TextureCallers ==
    {[engine |-> e, options |-> o] :
        e \in {"spread", "bounded"},
        o \in {[seed |-> s, shapeCount |-> n, width |-> 100, height |-> 200,
                minSize |-> 8, maxSize |-> 120] :
                  s \in {SeedNum(42), SeedNum(7907)}, n \in {1, MaxShapeCount}}}
    \cup {[engine |-> "spread", options |-> SpreadBase @@ [stamps |-> p]] :
             p \in {StampPool, HalfPixelPool}}

TextureInit ==
    /\ defaultSeed \in LoadSeeds
    /\ \E c \in TextureCallers :
          /\ engine = c.engine
          /\ options = c.options
    /\ caller = "library"
    /\ calls = <<>>
    /\ CodecIdle
    /\ ToolIdle

\* shape.textureScale = 2 * (shape.textureScale ?? 1) for every shape
ScaledTwice(composition) ==
    [composition EXCEPT !.shapes =
        [i \in DOMAIN @ |-> ("textureScale" :> 2 * TextureScaleOrOne(@[i])) @@ @[i]]]

CanScale ==
    /\ grid # JsNull
    /\ svg # JsNull
    /\ \A i \in DOMAIN grid.shapes :
          2 * TextureScaleOrOne(grid.shapes[i]) <= MaxTextureScale

\* renderArtGridSvg(grid) of the current engine
RenderSpread ==
    /\ engine = "spread"
    /\ Render

\* renderArtGridSvg(grid) of the bounded-placement variant
RenderBounded ==
    /\ engine = "bounded"
    /\ grid # JsNull
    /\ svg' = renderArtGridSvgBounded(grid)
    /\ decoded' = JsNull
    /\ UNCHANGED <<generatorVars, grid, toolVars>>

\* The texture scales of the composition in the page are doubled and the
\* composition is rendered again.
RescaleSpread ==
    /\ engine = "spread"
    /\ CanScale
    /\ grid' = ScaledTwice(grid)
    /\ svg' = renderArtGridSvg(ScaledTwice(grid))
    /\ decoded' = JsNull
    /\ UNCHANGED <<generatorVars, toolVars>>

RescaleBounded ==
    /\ engine = "bounded"
    /\ CanScale
    /\ grid' = ScaledTwice(grid)
    /\ svg' = renderArtGridSvgBounded(ScaledTwice(grid))
    /\ decoded' = JsNull
    /\ UNCHANGED <<generatorVars, toolVars>>

TextureNext ==
    \/ CallGenerateArtGrid
    \/ CallGenerateArtGridBounded
    \/ Compose
    \/ RenderSpread
    \/ RenderBounded
    \/ RescaleSpread
    \/ RescaleBounded

TextureSpec == TextureInit /\ [][TextureNext]_vars

(***************************************************************************)
(* Properties of the codec.                                                *)
(***************************************************************************)
\* The decoder was applied to the document the renderer produced for grid.
DecodedRendered ==
    /\ decoded # JsNull
    /\ decoded.grid # JsNull
    /\ decoded.svg = renderArtGridSvg(decoded.grid)

\* The fields of a shape that the codec defines.
CodecFields ==
    {"id", "type", "x", "y", "size", "color", "pattern", "rotation", "layer",
     "textureScale"} \cup StampDefFields \cup StampEditorFields

SameFields(a, b, keys) ==
    \A k \in keys : /\ Has(a, k) <=> Has(b, k)
                    /\ Has(a, k) => a[k] = b[k]

ShapesRoundTrip ==
    /\ ~decoded.outcome.threw
    /\ decoded.outcome.value # JsNull
    /\ Len(decoded.outcome.value.shapes) = Len(decoded.grid.shapes)
    /\ \A n \in DOMAIN decoded.grid.shapes :
          SameFields(decoded.outcome.value.shapes[n], decoded.grid.shapes[n], CodecFields)

\* C3 as stated: decodeSvgMetadata applied to renderArtGridSvg(X) returns a
\* structure whose seed, background and, per shape in order, id, type, x, y,
\* size, color, pattern, rotation, layer, textureScale and stamp fields
\* equal those of X, with or without a background.
RoundTripAsStated ==
    DecodedRendered =>
        /\ ShapesRoundTrip
        /\ decoded.outcome.value.seed = decoded.grid.meta.seed
        /\ Has(decoded.grid, "background")
        /\ decoded.outcome.value.background = decoded.grid.background

\* C3 (amended): the shapes' fields and a numeric seed round-trip; the
\* background round-trips when X has one, and is decoded as the solid
\* black default { color: '#000000', textureType: 'solid' } when X has none.
RoundTrip ==
    DecodedRendered =>
        /\ ShapesRoundTrip
        /\ ~decoded.grid.meta.seed.nan =>
              decoded.outcome.value.seed = decoded.grid.meta.seed
        /\ Has(decoded.grid, "background") =>
              decoded.outcome.value.background = decoded.grid.background
        /\ ~Has(decoded.grid, "background") =>
              decoded.outcome.value.background
                  = [color |-> "#000000", textureType |-> "solid"]

\* A composition with stamps and a stamped background was rendered and decoded.
RoundTripWitness ==
    /\ DecodedRendered
    /\ Has(decoded.grid, "background")
    /\ decoded.grid.background.textureType = "stamp"
    /\ \E n \in DOMAIN decoded.grid.shapes :
          Has(decoded.grid.shapes[n], "stampPathEditor")
    /\ \E n \in DOMAIN decoded.grid.shapes :
          /\ decoded.grid.shapes[n].type = "stamp"
          /\ ~Has(decoded.grid.shapes[n], "stampPathEditor")

\* The text of the document's metadata element, without surrounding space.
DecodedText == Trim(decoded.svg.metadata)

\* The text is base64 of a text that, URL-decoded, is JSON.
ValidPayload(text) ==
    /\ Has(text, "b64")
    /\ \/ Has(text.b64, "json")
       \/ Has(text.b64, "uri") /\ Has(text.b64.uri, "json")
PayloadOf(text) ==
    IF Has(text.b64, "json") THEN text.b64.json ELSE text.b64.uri.json

\* C4: decodeSvgMetadata never throws; it returns null when the document
\* has no metadata element, when the element's text is empty or white
\* space, or when the text is not a valid base64 / URL-encoded JSON payload,
\* and the parsed structure in every other case.
DecodeContract ==
    decoded # JsNull =>
        /\ ~decoded.outcome.threw
        /\ decoded.outcome.value =
              IF decoded.svg = JsNull \/ ~Has(decoded.svg, "metadata") THEN JsNull
              ELSE IF DecodedText \in {[chars |-> c] : c \in BlankChars} THEN JsNull
              ELSE IF ~ValidPayload(DecodedText) THEN JsNull
              ELSE PayloadOf(DecodedText)

\* The decoder met a payload that is base64 and URL-encoded but not JSON,
\* inside white space, and returned null.
DecodeWitness ==
    /\ decoded # JsNull
    /\ decoded.svg # JsNull
    /\ Has(decoded.svg, "metadata")
    /\ Has(decoded.svg.metadata, "padded")
    /\ DecodedText = [b64 |-> [uri |-> [chars |-> "{oops"]]]
    /\ decoded.outcome = Ok(JsNull)

\* The visible element of a rendered group: its last child.
Visible(group) == group.children[Len(group.children)]

\* The pattern definitions of the document that have the id pattern-index.
DefsOf(doc, index) ==
    {j \in DOMAIN doc.patterns :
        doc.patterns[j] # EmptyMarkup /\ doc.patterns[j].id = index}

\* C15: renderArtGridSvg emits exactly one pattern definition pattern-i for
\* every index i whose shape has a pattern other than solid and none for a
\* solid shape; the fill of the group of shape i names pattern-i (the colour
\* when solid); the groups are in the order of the shape list.
PatternsAligned ==
    [][Render =>
          /\ Len(svg'.shapes) = Len(grid.shapes)
          /\ \A i \in DOMAIN grid.shapes :
                /\ svg'.shapes[i].dataId = grid.shapes[i].id
                /\ IF grid.shapes[i].pattern = "solid"
                   THEN /\ DefsOf(svg', i - 1) = {}
                        /\ Visible(svg'.shapes[i]).fill = grid.shapes[i].color
                   ELSE /\ Cardinality(DefsOf(svg', i - 1)) = 1
                        /\ Visible(svg'.shapes[i]).fill = <<"url", "pattern", i - 1>>
          /\ \A j \in DOMAIN svg'.patterns :
                svg'.patterns[j] # EmptyMarkup =>
                    /\ svg'.patterns[j].id \in 0..(Len(grid.shapes) - 1)
                    /\ grid.shapes[svg'.patterns[j].id + 1].pattern # "solid"]_vars

\* The document in the page has a solid shape, and after it a shape that is
\* filled with the pattern of its own index.
PatternsAlignedWitness ==
    /\ svg # JsNull
    /\ \E i, j \in DOMAIN svg.shapes :
          /\ i < j
          /\ svg.patterns[i] = EmptyMarkup
          /\ svg.patterns[j] # EmptyMarkup
          /\ Visible(svg.shapes[j]).fill = <<"url", "pattern", j - 1>>

\* a = b for two fractions
SameFrac(a, b) == a.num * b.den = b.num * a.den

\* C16: renderArtGridSvg emits for a rectangle a square with
\* x = y = -size / 2 and width = height = size, for a circle a circle of
\* r = size / 2 with cx = cy = 0, inside a group whose transform is
\* translate(x, y) rotate(rotation) and whose data-id, data-layer and
\* data-plan-x / -y are the shape's id, layer and position.
PrimitiveGeometry ==
    [][Render =>
          \A i \in DOMAIN grid.shapes :
              grid.shapes[i].type \in {"rect", "circle"} =>
                  /\ svg'.shapes[i].transform
                        = [translateX |-> grid.shapes[i].x, translateY |-> grid.shapes[i].y,
                           rotate |-> grid.shapes[i].rotation]
                  /\ svg'.shapes[i].dataId = grid.shapes[i].id
                  /\ svg'.shapes[i].dataLayer = grid.shapes[i].layer
                  /\ svg'.shapes[i].dataPlanX = grid.shapes[i].x
                  /\ svg'.shapes[i].dataPlanY = grid.shapes[i].y
                  /\ IF grid.shapes[i].type = "rect"
                     THEN /\ Visible(svg'.shapes[i]).tag = "rect"
                          /\ SameFrac(Visible(svg'.shapes[i]).x, Frac(-grid.shapes[i].size, 2))
                          /\ SameFrac(Visible(svg'.shapes[i]).y, Frac(-grid.shapes[i].size, 2))
                          /\ Visible(svg'.shapes[i]).width = grid.shapes[i].size
                          /\ Visible(svg'.shapes[i]).height = grid.shapes[i].size
                     ELSE /\ Visible(svg'.shapes[i]).tag = "circle"
                          /\ SameFrac(Visible(svg'.shapes[i]).r, Frac(grid.shapes[i].size, 2))
                          /\ Visible(svg'.shapes[i]).cx = 0
                          /\ Visible(svg'.shapes[i]).cy = 0]_vars

\* The document in the page has a square and a circle, one of them rotated.
PrimitiveGeometryWitness ==
    /\ svg # JsNull
    /\ \E i, j \in DOMAIN svg.shapes :
          /\ Visible(svg.shapes[i]).tag = "rect"
          /\ Visible(svg.shapes[j]).tag = "circle"
          /\ svg.shapes[i].transform.rotate # 0

\* bitmapToSvgPath draws the pixel (x, y) of a bitmap as the square at
\* (x / pathResolution, y / pathResolution): the path of a stamp that is
\* stampWidth by stampHeight pixels extends over stampWidth / resolution by
\* stampHeight / resolution of its local coordinates.  The editor's path is
\* drawn at resolution 1.
LocalExtent(shape) ==
    IF Has(shape, "stampPathEditor") /\ Has(shape, "stampWidthEditor")
       /\ Has(shape, "stampHeightEditor")
    THEN [width |-> Frac(shape.stampWidthEditor, 1),
          height |-> Frac(shape.stampHeightEditor, 1)]
    ELSE [width |-> Frac(shape.stampWidth, ResolutionOrOne(shape)),
          height |-> Frac(shape.stampHeight, ResolutionOrOne(shape))]

\* a * b, and the larger of a and b, for fractions of positive denominators
MulFrac(a, b) == Frac(a.num * b.num, a.den * b.den)
MaxFrac(a, b) == IF a.num * b.den >= b.num * a.den THEN a ELSE b

\* C17: for a stamp shape of positive local width and height, at any
\* resolution, the path's transform has a scale with
\* max(local width, local height) * scale = size, and its translation takes
\* the centre of the path's local extent to the origin of the group:
\* translate + scale * centre = 0.
StampScaling ==
    [][Render =>
          \A i \in DOMAIN grid.shapes :
              (grid.shapes[i].type = "stamp" /\ TruthyText(grid.shapes[i], "stampPath")) =>
                  /\ Visible(svg'.shapes[i]).tag = "path"
                  /\ SameFrac(MulFrac(MaxFrac(LocalExtent(grid.shapes[i]).width,
                                              LocalExtent(grid.shapes[i]).height),
                                      Visible(svg'.shapes[i]).transform.scale),
                              Frac(grid.shapes[i].size, 1))
                  /\ SameFrac(MulFrac(Frac(-2, 1), Visible(svg'.shapes[i]).transform.translateX),
                              MulFrac(LocalExtent(grid.shapes[i]).width,
                                      Visible(svg'.shapes[i]).transform.scale))
                  /\ SameFrac(MulFrac(Frac(-2, 1), Visible(svg'.shapes[i]).transform.translateY),
                              MulFrac(LocalExtent(grid.shapes[i]).height,
                                      Visible(svg'.shapes[i]).transform.scale))]_vars

\* The document in the page shows a stamp of resolution 2 that has no
\* editor's path.
StampScalingWitness ==
    /\ svg # JsNull /\ grid # JsNull
    /\ Len(svg.shapes) = Len(grid.shapes)
    /\ \E i \in DOMAIN grid.shapes :
          /\ svg.shapes[i].dataId = grid.shapes[i].id
          /\ Visible(svg.shapes[i]).tag = "path"
          /\ Has(grid.shapes[i], "stampPathResolution")
          /\ grid.shapes[i].stampPathResolution = 2
          /\ ~Has(grid.shapes[i], "stampPathEditor")
          /\ grid.shapes[i].stampWidth # grid.shapes[i].stampHeight

\* C18: for a shape of type 'stamp' whose stampPath is missing or empty the
\* document has no element that carries the shape's fill.
MalformedStampEmpty ==
    [][Render =>
          \A i \in DOMAIN grid.shapes :
              (grid.shapes[i].type = "stamp" /\ ~TruthyText(grid.shapes[i], "stampPath")) =>
                  \A k \in DOMAIN svg'.shapes[i].children :
                      ~Has(svg'.shapes[i].children[k], "fill")]_vars

\* a = 2 * b for two fractions
TwiceFrac(a, b) == a.num * b.den = 2 * b.num * a.den

\* The tile after is the tile before with its width, height, stroke-width
\* and dot radius doubled.
TileDoubled(before, after) ==
    /\ before # EmptyMarkup /\ after # EmptyMarkup
    /\ DOMAIN after = DOMAIN before
    /\ TwiceFrac(after.width, before.width)
    /\ TwiceFrac(after.height, before.height)
    /\ Has(before, "strokeWidth") => TwiceFrac(after.strokeWidth, before.strokeWidth)
    /\ Has(before, "r") => TwiceFrac(after.r, before.r)

\* Rectangles and circles with a pattern: doubling the texture scale
\* doubled the tile.
TilesDoubled ==
    \A i \in DOMAIN grid.shapes :
        (grid.shapes[i].type \in {"rect", "circle"} /\ grid.shapes[i].pattern # "solid") =>
            TileDoubled(svg.patterns[i], svg'.patterns[i])

\* Stamps with a pattern: the tile is that of the scale
\* textureScale * 50 / max(size, 1).
StampTilesScaled ==
    \A i \in DOMAIN grid'.shapes :
        (grid'.shapes[i].type = "stamp" /\ grid'.shapes[i].pattern # "solid") =>
            /\ svg'.patterns[i] # EmptyMarkup
            /\ SameFrac(svg'.patterns[i].patternSize,
                        Frac(4 * grid'.shapes[i].textureScale * 50,
                             Max(grid'.shapes[i].size, Unit)))

\* C19 as stated: with either createPatternDef, doubling a rectangle's or
\* circle's textureScale doubles the width, height, stroke-width and dot
\* radius of its pattern tile; a stamp's tile has the scale
\* textureScale * 50 / max(size, 1).
TileScalingAsStated ==
    [][/\ (RescaleSpread \/ RescaleBounded) => TilesDoubled
       /\ (RenderSpread \/ RescaleSpread) => StampTilesScaled]_vars

\* C19: with createPatternDef of the current renderer, doubling a
\* rectangle's or circle's textureScale doubles the width, height,
\* stroke-width and dot radius of its pattern tile, and a stamp's tile has
\* the scale textureScale * 50 / max(size, 1); createPatternDef of the
\* bounded-placement variant does not read textureScale, its tile is the
\* same before and after.
TileScaling ==
    [][/\ RescaleSpread => TilesDoubled
       /\ (RenderSpread \/ RescaleSpread) => StampTilesScaled
       /\ RescaleBounded => svg'.patterns = svg.patterns]_vars

\* A composition with a hatched and a dotted shape was rendered with
\* doubled texture scales.
TileScalingWitness ==
    /\ svg # JsNull /\ grid # JsNull
    /\ Len(svg.patterns) = Len(grid.shapes)
    /\ \E i, j \in DOMAIN grid.shapes :
          /\ grid.shapes[i].type \in {"rect", "circle"}
          /\ grid.shapes[i].pattern \in {"hatch", "cross-hatch"}
          /\ grid.shapes[j].pattern = "dots"
          /\ Has(grid.shapes[i], "textureScale")
          /\ grid.shapes[i].textureScale > 2 * Unit
          /\ svg.patterns[i] # EmptyMarkup
          /\ svg.patterns[i].width.num * Unit
                = 4 * grid.shapes[i].textureScale * svg.patterns[i].width.den

(***************************************************************************)
(* The editing tool (mountArtGridTool).  A handler is written as the       *)
(* record of the variables it assigns; Handled and Ran apply such a        *)
(* record.  Coordinates are in the document's user space, in fixed point.  *)
(***************************************************************************)
STAMP_PATH_RESOLUTION == 1
DEFAULT_COLORS ==
    <<"#00ff00", "#ff0000", "#00ffff", "#ff00ff", "#ffff00", "#ffffff", "#0000ff">>

\* getStampPool(): the variants cut from the loaded stamp sheet
SheetStamps ==
    <<[stampPath |-> "M0,0h1v1h-1z", stampWidth |-> 6, stampHeight |-> 4,
       stampPathResolution |-> STAMP_PATH_RESOLUTION],
      [stampPath |-> "M1,0h1v2h-1z", stampWidth |-> 3, stampHeight |-> 5,
       stampPathResolution |-> STAMP_PATH_RESOLUTION]>>

\* The options object that generate() reads from the fields f; the spread
\* is clamped to 0.5..2.5 and is 1 when the field holds no number.
ReadOptions(f, now) ==
    [seed |-> SeedNum(readPositiveInt(f.seed, now)),
     width |-> readPositiveInt(f.width, 1200),
     height |-> readPositiveInt(f.height, 2400),
     shapeCount |-> readBoundedInt(f.shapeCount, 80, 20, 300),
     spread |-> IF f.spread.nan THEN SpreadNum(100)
                ELSE SpreadNum(Max(50, Min(250, f.spread.v))),
     minSize |-> readBoundedInt(f.minSize, 8, 2, 100),
     maxSize |-> readBoundedInt(f.maxSize, 120, 10, 300),
     minTextureScale |-> IF f.minTextureScale = 0 THEN Unit \div 2 ELSE f.minTextureScale,
     maxTextureScale |-> IF f.maxTextureScale = 0 THEN 2 * Unit ELSE f.maxTextureScale,
     randomRotation |-> f.randomRotation,
     colors |-> DEFAULT_COLORS,
     stamps |-> SheetStamps]

\* The grid that delete, stamp placement and layer regeneration hand to the
\* renderer: the shapes, on a canvas of the size the fields hold.
GridOfFields(f, now, shapes, bg) ==
    [meta |-> [width |-> readPositiveInt(f.width, 1200),
               height |-> readPositiveInt(f.height, 2400),
               seed |-> SeedNum(readPositiveInt(f.seed, now)),
               shapeCount |-> Len(shapes)],
     shapes |-> shapes,
     background |-> bg]

\* The first index from i on whose entry has the value at the key, else 0.
RECURSIVE IndexWhere(_, _, _, _)
IndexWhere(seq, key, value, i) ==
    IF i > Len(seq) THEN 0
    ELSE IF seq[i][key] = value THEN i
    ELSE IndexWhere(seq, key, value, i + 1)

\* decodeSvgMetadata(svg)
Decoded(doc) == decodeSvgMetadata(doc).value

\* metadata.shapes.filter((s) => s.layer === layer)
InLayer(shapes, layer) == SelectSeq(shapes, LAMBDA s : s.layer = layer)

\* readBaseViewBox: data-base-viewbox, else the view box
readBaseViewBox(doc) == IF Has(doc, "baseViewBox") THEN doc.baseViewBox ELSE doc.viewBox

\* persistMetadata: the document with its metadata element rewritten
persistMetadata(doc, meta) ==
    IF Has(doc, "metadata") THEN [doc EXCEPT !.metadata = encodeSvgMetadata(meta)]
    ELSE doc

\* Layers counted from 0.
DefaultLayerFromZero(shape, index) ==
    IF \/ ~Has(shape, "layer")
       \/ shape.layer \in {JsNull, LayerName(""), LayerNum(0)}
       \/ (Has(shape.layer, "num") /\ shape.layer.num < 1)
    THEN ("layer" :> LayerNum(index % 5)) @@ shape
    ELSE shape

\* bindSvgInteractions gives a shape with !shape.layer || shape.layer < 1
\* the layer (index % 5) + 1.
DefaultLayer(shape, index) ==
    IF \/ ~Has(shape, "layer")
       \/ shape.layer \in {JsNull, LayerName(""), LayerNum(0)}
       \/ (Has(shape.layer, "num") /\ shape.layer.num < 1)
    THEN ("layer" :> LayerNum((index % 5) + 1)) @@ shape
    ELSE shape

\* The metadata object that the handlers of bindSvgInteractions close over.
BoundMetadata(meta) ==
    [shapes |-> [i \in DOMAIN meta.shapes |-> DefaultLayer(meta.shapes[i], i - 1)],
     background |-> IF Has(meta, "background") /\ meta.background # JsNull
                    THEN meta.background ELSE background,
     seed |-> meta.seed]

\* data-layer of every group of class art-shape (the groups the renderer
\* gave a data-layer) whose data-id names a shape of the metadata
WithLayers(doc, meta) ==
    [doc EXCEPT !.shapes =
        [i \in DOMAIN doc.shapes |->
            IF \/ ~Has(doc.shapes[i], "dataLayer")
               \/ IndexWhere(meta.shapes, "id", doc.shapes[i].dataId, 1) = 0
            THEN doc.shapes[i]
            ELSE [doc.shapes[i] EXCEPT !.dataLayer =
                     meta.shapes[IndexWhere(meta.shapes, "id", doc.shapes[i].dataId, 1)].layer]]]

\* bindSvgInteractions() on the element doc just put into the page: the
\* closure of its handlers; the document is rewritten when a layer was
\* assigned.  No handler is bound when the document has no metadata.
bindSvgInteractions(doc) ==
    IF Decoded(doc) = JsNull
    THEN [svg |-> doc, metadata |-> JsNull, viewBox |-> JsNull]
    ELSE IF BoundMetadata(Decoded(doc)).shapes = Decoded(doc).shapes
    THEN [svg |-> doc, metadata |-> BoundMetadata(Decoded(doc)), viewBox |-> doc.viewBox]
    ELSE [svg |-> persistMetadata(WithLayers(doc, BoundMetadata(Decoded(doc))),
                                  BoundMetadata(Decoded(doc))),
          latestSvg |-> persistMetadata(WithLayers(doc, BoundMetadata(Decoded(doc))),
                                        BoundMetadata(Decoded(doc))),
          metadata |-> BoundMetadata(Decoded(doc)),
          viewBox |-> doc.viewBox]

\* A waiting callback that holds the element in the page (its view box is
\* JsNull) holds, once the element is replaced, the element as it was.
Detached(task) ==
    IF Has(task, "viewBox") /\ task.viewBox = JsNull
    THEN [task EXCEPT !.viewBox = svg.viewBox] ELSE task

\* setSvgContent and bindSvgInteractions(): doc is the new element of the
\* page, and the gesture in progress and the callbacks in queue hold
\* elements that are no longer in it.
Shown(doc, queue) ==
    bindSvgInteractions(doc)
    @@ [dragState |-> IF dragState = JsNull THEN JsNull
                      ELSE [dragState EXCEPT !.attached = FALSE],
        frames |-> [i \in DOMAIN queue |-> Detached(queue[i])]]

MaxEvents == 4

\* The handler assigned the variables named in the record next.
Assigned(next) ==
    /\ svg' = IF Has(next, "svg") THEN next.svg ELSE svg
    /\ fields' = IF Has(next, "fields") THEN next.fields ELSE fields
    /\ background' = IF Has(next, "background") THEN next.background ELSE background
    /\ latestSvg' = IF Has(next, "latestSvg") THEN next.latestSvg ELSE latestSvg
    /\ selectedShapeIds' = IF Has(next, "selectedShapeIds") THEN next.selectedShapeIds
                           ELSE selectedShapeIds
    /\ selectedLayer' = IF Has(next, "selectedLayer") THEN next.selectedLayer
                        ELSE selectedLayer
    /\ dragState' = IF Has(next, "dragState") THEN next.dragState ELSE dragState
    /\ isGenerating' = IF Has(next, "isGenerating") THEN next.isGenerating ELSE isGenerating
    /\ stampMode' = IF Has(next, "stampMode") THEN next.stampMode ELSE stampMode
    /\ stampShape' = IF Has(next, "stampShape") THEN next.stampShape ELSE stampShape
    /\ metadata' = IF Has(next, "metadata") THEN next.metadata ELSE metadata
    /\ viewBox' = IF Has(next, "viewBox") THEN next.viewBox ELSE viewBox
    /\ frames' = IF Has(next, "frames") THEN next.frames ELSE frames
    /\ generateCall' = IF Has(next, "generateCall") THEN next.generateCall ELSE generateCall
    /\ clock' = IF Has(next, "clock") THEN next.clock ELSE clock
    /\ localStorage' = IF Has(next, "localStorage") THEN next.localStorage
                       ELSE localStorage
    /\ fault' = IF Has(next, "fault") THEN next.fault ELSE fault
    /\ overlay' = IF Has(next, "overlay") THEN next.overlay ELSE overlay
    /\ controlsDisabled' = IF Has(next, "controlsDisabled") THEN next.controlsDisabled
                           ELSE controlsDisabled
    /\ sheetImage' = IF Has(next, "sheetImage") THEN next.sheetImage ELSE sheetImage
    /\ download' = IF Has(next, "download") THEN next.download ELSE download
    /\ UNCHANGED <<generatorVars, grid, decoded>>

\* A user event was handled; an event that leaves everything as it was is
\* not counted.
Handled(next) ==
    /\ events < MaxEvents
    /\ \E assigned \in {next} : Assigned(assigned)
    /\ <<svg, toolState>>' # <<svg, toolState>>
    /\ events' = events + 1

\* The oldest waiting callback ran.
Ran(next) ==
    /\ \E assigned \in {next @@ [frames |-> Tail(frames)]} : Assigned(assigned)
    /\ events' = events

\* Date.now(), and randomSeed(): a value of 1..MAX_SEED, another one at
\* every call.
Now == 1700000000 + clock
randomSeed == 7 + clock

\* generate: the shapes of the stamps layer that the new composition keeps
existingStampShapes(doc, layer) ==
    IF layer = LayerName("stamps") THEN <<>>
    ELSE IF doc = JsNull THEN <<>>
    ELSE IF Decoded(doc) = JsNull THEN <<>>
    ELSE InLayer(Decoded(doc).shapes, LayerName("stamps"))

\* generate() from its reading of the options to its wait.
Started(f) ==
    [fields |-> [f EXCEPT !.seed = FieldInt(readPositiveInt(f.seed, Now))],
     isGenerating |-> TRUE,
     overlay |-> TRUE,
     controlsDisabled |-> TRUE,
     frames |-> Append(frames, [kind |-> "generate",
                                options |-> ReadOptions(f, Now),
                                called |-> existingStampShapes(svg, JsNull)])]

\* generate() without `if (isGenerating) return`.
generateReentrant(f) ==
    IF ~sheetImage THEN [fields |-> f, controlsDisabled |-> FALSE]
    ELSE Started(f)

\* generate() up to its wait for two animation frames, f being the fields
\* when it is called: the options are read and the seed is written back.
\* Without a stamp in the pool the call is abandoned: isGenerating is set
\* and reset, and the buttons are enabled.
generate(f) ==
    IF isGenerating THEN [fields |-> f]
    ELSE IF ~sheetImage THEN [fields |-> f, controlsDisabled |-> FALSE]
    ELSE Started(f)

\* generateNewBtn, disabled while generate() runs
ClickGenerateNew ==
    /\ ~isGenerating
    /\ Handled([clock |-> clock + 1]
               @@ generate([fields EXCEPT !.seed = FieldInt(randomSeed)]))

\* keydown of 'm'
KeyM ==
    Handled([clock |-> clock + 1]
            @@ generate([fields EXCEPT !.seed = FieldInt(randomSeed)]))

\* The view box generate() gives the new document: the canvas and a margin
\* of 15% of its longer side.
FramedViewBox(base) ==
    [minX |-> base.minX - (Max(base.width, base.height) * 15) \div 100,
     minY |-> base.minY - (Max(base.width, base.height) * 15) \div 100,
     width |-> base.width + 2 * ((Max(base.width, base.height) * 15) \div 100),
     height |-> base.height + 2 * ((Max(base.width, base.height) * 15) \div 100)]

\* A generate() that renders the generated shapes alone.
GridOfGenerateFresh(made, existing) ==
    [meta |-> made.meta, shapes |-> made.shapes, background |-> background]

\* The grid of generate(): the generated shapes and the kept stamp shapes
\* after them, with the tool's background.
GridOfGenerate(made, existing) ==
    IF Len(existing) > 0
    THEN [meta |-> [made.meta EXCEPT !.shapeCount = Len(made.shapes) + Len(existing)],
          shapes |-> made.shapes \o existing,
          background |-> background]
    ELSE [meta |-> made.meta, shapes |-> made.shapes, background |-> background]

\* persistSettings: the seed, the values read from the other fields and the
\* background are stored under SETTINGS_KEY; nothing else is written to the
\* storage.
SETTINGS_KEY == "artGrid.settings"
LATEST_SVG_KEY == "artGrid.latestSvg"
SettingsOf(f) ==
    [f EXCEPT !.width = FieldInt(readPositiveInt(f.width, 1200)),
              !.height = FieldInt(readPositiveInt(f.height, 2400)),
              !.shapeCount = FieldInt(readBoundedInt(f.shapeCount, 80, 20, 300)),
              !.spread = IF f.spread.nan THEN SpreadNum(100)
                         ELSE SpreadNum(Max(50, Min(250, f.spread.v))),
              !.minSize = FieldInt(readBoundedInt(f.minSize, 8, 2, 100)),
              !.maxSize = FieldInt(readBoundedInt(f.maxSize, 120, 10, 300)),
              !.minTextureScale = IF f.minTextureScale = 0 THEN Unit \div 2
                                  ELSE f.minTextureScale,
              !.maxTextureScale = IF f.maxTextureScale = 0 THEN 2 * Unit
                                  ELSE f.maxTextureScale]
persistSettings(f) ==
    (SETTINGS_KEY :> [seed |-> readPositiveInt(f.seed, Now),
                      fields |-> SettingsOf(f),
                      background |-> background])
    @@ localStorage

\* loadSettings: the stored settings, JsNull when there are none
loadSettings ==
    IF Has(localStorage, SETTINGS_KEY) THEN localStorage[SETTINGS_KEY] ELSE JsNull

\* generate() after its wait.
GenerateResume ==
    /\ frames # <<>>
    /\ Head(frames).kind = "generate"
    /\ \E existing \in {existingStampShapes(svg, selectedLayer)} :
       \E made \in {generateArtGrid(Head(frames).options, defaultSeed)} :
       \E rendered \in {renderArtGridSvg(GridOfGenerate(made, existing))} :
       \E shown \in {[rendered EXCEPT !.viewBox = FramedViewBox(readBaseViewBox(rendered))]} :
          Ran(Shown(shown, Tail(frames))
              @@ [latestSvg |-> shown,
                  selectedShapeIds |-> {},
                  selectedLayer |-> JsNull,
                  isGenerating |-> FALSE,
                  overlay |-> FALSE,
                  controlsDisabled |-> FALSE,
                  generateCall |->
                      [called |-> Head(frames).called,
                       resumed |-> existingStampShapes(svg, JsNull),
                       selectedLayer |-> selectedLayer,
                       kept |-> existingStampShapes(shown, JsNull)],
                  localStorage |-> persistSettings(fields)])

(***************************************************************************)
(* Pointer gestures on the document.  One pointer is followed: a gesture   *)
(* begins when none is in progress.                                        *)
(***************************************************************************)
\* The shapes the pointer goes down on: the first and the last of the document.
Targets ==
    IF svg = JsNull THEN {}
    ELSE {svg.shapes[i].dataId : i \in DOMAIN svg.shapes \cap {1, Len(svg.shapes)}}
\* Where the pointer is moved to: a point, a direction from the centre of
\* the shape (degrees), a distance from it (as a ratio of the distance at
\* which the gesture began), the turn of the wheel (as the zoom factor
\* Math.pow(1.0018, +-120)).
MovePoints == {[x |-> 10 * Unit, y |-> 20 * Unit]}
MoveAngles == {100 * Unit}
MoveRatios == {<<1, 100>>, <<3, 2>>}
ZoomFactors == {<<1241, 1000>>, <<806, 1000>>}

\* The shape with the id in the metadata of the handlers, JsNull when
\* there is none (metadata.shapes.find).
Find(id) ==
    IF IndexWhere(metadata.shapes, "id", id, 1) = 0 THEN JsNull
    ELSE metadata.shapes[IndexWhere(metadata.shapes, "id", id, 1)]

\* The handlers of the element in the page are bound.
Bound == svg # JsNull /\ metadata # JsNull

\* pointerdown on the rotation gizmo of a selected shape, drawn at the
\* top right corner of its outline: 45 degrees above the x axis.
PointerDownRotateGizmo(id) ==
    /\ Bound /\ dragState = JsNull
    /\ id \in selectedShapeIds
    /\ IndexWhere(Decoded(svg).shapes, "id", id, 1) # 0
    /\ Find(id) # JsNull
    /\ Handled([dragState |->
                   [kind |-> "rotate", id |-> id, attached |-> TRUE,
                    centerX |-> Find(id).x, centerY |-> Find(id).y,
                    startRotation |-> Find(id).rotation,
                    startAngle |-> -45 * Unit]])

\* pointerdown on the scale gizmo of a selected shape, at the bottom right
\* corner of its outline; the pointer's distance from the centre of the
\* shape is given from here on as a ratio of startDistance.
PointerDownScaleGizmo(id) ==
    /\ Bound /\ dragState = JsNull
    /\ id \in selectedShapeIds
    /\ IndexWhere(Decoded(svg).shapes, "id", id, 1) # 0
    /\ Find(id) # JsNull
    /\ Handled([dragState |->
                   [kind |-> "scale", id |-> id, attached |-> TRUE,
                    centerX |-> Find(id).x, centerY |-> Find(id).y,
                    startSize |-> Find(id).size]])

\* pointerdown on the centre of a shape, outside the stamp mode
PointerDownShape(id, shiftKey) ==
    /\ Bound /\ dragState = JsNull
    /\ ~stampMode
    /\ Find(id) # JsNull
    /\ IF shiftKey
       THEN Handled([selectedShapeIds |->
                        IF id \in selectedShapeIds THEN selectedShapeIds \ {id}
                        ELSE selectedShapeIds \cup {id}])
       ELSE Handled([selectedShapeIds |->
                        IF id \in selectedShapeIds THEN selectedShapeIds ELSE {id},
                     selectedLayer |->
                        IF id \in selectedShapeIds THEN selectedLayer ELSE JsNull,
                     dragState |->
                        [kind |-> "shape", id |-> id, attached |-> TRUE,
                         startX |-> Find(id).x, startY |-> Find(id).y,
                         offsetX |-> 0, offsetY |-> 0]])

\* pointerdown on the canvas, outside the stamp mode: a pan begins
PointerDownCanvas ==
    /\ Bound /\ dragState = JsNull
    /\ ~stampMode
    /\ Handled([selectedShapeIds |-> {},
                selectedLayer |-> JsNull,
                dragState |-> [kind |-> "pan", attached |-> TRUE,
                               startViewBox |-> svg.viewBox]])

\* setAttribute on the group of the gesture and on the first child of the
\* group with the tag (querySelector): nothing in the page changes when
\* the group is no longer in it.
SetAttributes(id, attrs, tag, childAttrs) ==
    IF ~dragState.attached THEN svg
    ELSE [svg EXCEPT !.shapes =
            [i \in DOMAIN svg.shapes |->
                IF i # IndexWhere(svg.shapes, "dataId", id, 1) THEN svg.shapes[i]
                ELSE attrs @@ [svg.shapes[i] EXCEPT !.children =
                        [j \in DOMAIN svg.shapes[i].children |->
                            IF j = IndexWhere(svg.shapes[i].children, "tag", tag, 1)
                            THEN childAttrs @@ svg.shapes[i].children[j]
                            ELSE svg.shapes[i].children[j]]]]]

\* The metadata of the handlers with fields of the shape of the gesture set.
SetShape(changes) ==
    [metadata EXCEPT !.shapes[IndexWhere(metadata.shapes, "id", dragState.id, 1)] =
        changes @@ @]

\* translate(x, y) rotate(rotation)
GroupTransform(shape) ==
    [transform |-> [translateX |-> shape.x, translateY |-> shape.y,
                    rotate |-> shape.rotation]]

\* The snapped rotation without its `newRotation % 360`.
NewRotationUnwrapped(angle, shiftKey) ==
    IF shiftKey
    THEN (dragState.startRotation + (angle - dragState.startAngle)) % (360 * Unit)
    ELSE (((2 * ((dragState.startRotation + (angle - dragState.startAngle))
                 % (360 * Unit)) + 45 * Unit) \div (90 * Unit)) * 45 * Unit)

\* (startRotation + angleDelta) % 360, snapped to a multiple of 45 degrees
\* unless the shift key is held
NewRotation(angle, shiftKey) ==
    IF shiftKey
    THEN (dragState.startRotation + (angle - dragState.startAngle)) % (360 * Unit)
    ELSE ((((2 * ((dragState.startRotation + (angle - dragState.startAngle))
                  % (360 * Unit)) + 45 * Unit) \div (90 * Unit)) * 45 * Unit)
          % (360 * Unit))

\* Math.max(4, startSize * scaleFactor)
NewSize(ratio) == Max(4 * Unit, (dragState.startSize * ratio[1]) \div ratio[2])

\* The element of the shape that the scale gesture resizes, and the
\* attributes it sets on it.
Resized(shape, size) ==
    IF shape.type = "circle" THEN <<"circle", [r |-> Frac(size, 2)]>>
    ELSE IF shape.type = "stamp"
    THEN IF TruthyNum(shape, "stampWidth") /\ TruthyNum(shape, "stampHeight")
         THEN <<"path", [transform |-> StampTransform(size, shape.stampWidth,
                                                      shape.stampHeight,
                                                      ResolutionOrOne(shape))]>>
         ELSE <<"path", <<>>>>
    ELSE <<"rect", [x |-> Frac(-size, 2), y |-> Frac(-size, 2),
                    width |-> size, height |-> size]>>

\* pointermove during a gesture
PointerMove ==
    /\ Bound /\ dragState # JsNull
    /\ \/ /\ dragState.kind = "pan"
          /\ Handled([svg |-> [svg EXCEPT !.viewBox =
                         [minX |-> dragState.startViewBox.minX - viewBox.width \div 4,
                          minY |-> dragState.startViewBox.minY - viewBox.height \div 4,
                          width |-> dragState.startViewBox.width,
                          height |-> dragState.startViewBox.height]]])
       \/ /\ dragState.kind = "rotate"
          /\ Find(dragState.id) # JsNull
          /\ \E angle \in MoveAngles, shiftKey \in BOOLEAN :
             \E shape \in {[Find(dragState.id)
                              EXCEPT !.rotation = NewRotation(angle, shiftKey)]} :
                Handled([metadata |-> SetShape(shape),
                         svg |-> SetAttributes(dragState.id, GroupTransform(shape),
                                               "", <<>>)])
       \/ /\ dragState.kind = "scale"
          /\ Find(dragState.id) # JsNull
          /\ \E ratio \in MoveRatios :
             \E shape \in {[Find(dragState.id) EXCEPT !.size = NewSize(ratio)]} :
                Handled([metadata |-> SetShape(shape),
                         svg |-> SetAttributes(dragState.id, GroupTransform(shape),
                                               Resized(shape, shape.size)[1],
                                               Resized(shape, shape.size)[2])])
       \/ /\ dragState.kind = "shape"
          /\ Find(dragState.id) # JsNull
          /\ \E point \in MovePoints :
             \E shape \in {[Find(dragState.id) EXCEPT
                              !.x = point.x - dragState.offsetX,
                              !.y = point.y - dragState.offsetY]} :
                Handled([metadata |-> SetShape(shape),
                         svg |-> SetAttributes(dragState.id,
                                               GroupTransform(shape)
                                               @@ [dataPlanX |-> shape.x,
                                                   dataPlanY |-> shape.y],
                                               "", <<>>)])

\* pointerup or pointercancel
EndDrag ==
    /\ Bound /\ dragState # JsNull
    /\ Handled([dragState |-> JsNull,
                svg |-> persistMetadata(svg, metadata),
                latestSvg |-> persistMetadata(svg, metadata)])

\* The view box after a turn of the wheel with the pointer in the middle
\* of the view: the size is kept within a fifth of the canvas and 8 times
\* the view box and the canvas.
ZoomedViewBox(current, base, factor) ==
    [minX |-> (current.minX + current.width \div 2) -
                 Max(Max(Unit, base.width \div 5),
                     Min(Max(viewBox.width * 8, base.width * 8),
                         (current.width * factor[1]) \div factor[2])) \div 2,
     minY |-> (current.minY + current.height \div 2) -
                 Max(Max(Unit, base.height \div 5),
                     Min(Max(viewBox.height * 8, base.height * 8),
                         (current.height * factor[1]) \div factor[2])) \div 2,
     width |-> Max(Max(Unit, base.width \div 5),
                   Min(Max(viewBox.width * 8, base.width * 8),
                       (current.width * factor[1]) \div factor[2])),
     height |-> Max(Max(Unit, base.height \div 5),
                    Min(Max(viewBox.height * 8, base.height * 8),
                        (current.height * factor[1]) \div factor[2]))]

\* wheel: zoomAtPointer
Wheel(factor) ==
    /\ Bound /\ dragState = JsNull
    /\ \E zoomed \in {ZoomedViewBox(svg.viewBox, readBaseViewBox(svg), factor)} :
       /\ zoomed.width # svg.viewBox.width \/ zoomed.height # svg.viewBox.height
       /\ \E doc \in {persistMetadata([svg EXCEPT !.viewBox = zoomed], metadata)} :
             Handled(Shown(doc, frames) @@ [latestSvg |-> doc])

\* centerCameraBtn, and keydown of 'n'
CenterCamera ==
    /\ svg # JsNull
    /\ Has(svg, "baseViewBox")
    /\ IF Decoded(svg) = JsNull
       THEN Handled([svg |-> [svg EXCEPT !.viewBox = svg.baseViewBox]])
       ELSE Handled([svg |-> persistMetadata([svg EXCEPT !.viewBox = svg.baseViewBox],
                                             Decoded(svg)),
                     latestSvg |-> persistMetadata([svg EXCEPT !.viewBox = svg.baseViewBox],
                                                   Decoded(svg))])

(***************************************************************************)
(* Controls of the tool.                                                   *)
(***************************************************************************)
\* The layer buttons clicked: those of the layers of the first and of the
\* last shape, and that of the stamps layer.
LayersClicked ==
    IF svg = JsNull \/ Decoded(svg) = JsNull THEN {}
    ELSE {LayerOrOne(Decoded(svg).shapes[i]) :
             i \in DOMAIN Decoded(svg).shapes \cap {1, Len(Decoded(svg).shapes)}}
         \cup {LayerName("stamps")}

\* click on the button of a layer in the layer list
LayerClick(layer) ==
    /\ svg # JsNull
    /\ Decoded(svg) # JsNull
    /\ \E i \in DOMAIN Decoded(svg).shapes : LayerOrOne(Decoded(svg).shapes[i]) = layer
    /\ IF selectedLayer = layer
       THEN Handled([selectedLayer |-> JsNull, selectedShapeIds |-> {}])
       ELSE Handled([selectedLayer |-> layer,
                     selectedShapeIds |->
                        {Decoded(svg).shapes[i].id : i \in
                            {j \in DOMAIN Decoded(svg).shapes :
                                LayerOrOne(Decoded(svg).shapes[j]) = layer}}])

\* The document that delete, stamp placement and layer regeneration put
\* into the page: rendered on a canvas of the size the fields hold, with
\* the view box kept.
Refreshed(shapes, kept) ==
    [renderArtGridSvg(GridOfFields(fields, Now, shapes, background))
        EXCEPT !.viewBox = kept]

\* The delete handler without selectedShapeIds.clear().
ClickDeleteKeepsSelection ==
    /\ ~isGenerating
    /\ svg # JsNull
    /\ Decoded(svg) # JsNull
    /\ selectedShapeIds # {}
    /\ \E doc \in {Refreshed(SelectSeq(Decoded(svg).shapes,
                                       LAMBDA s : s.id \notin selectedShapeIds),
                             svg.viewBox)} :
          Handled(Shown(doc, frames)
                  @@ [latestSvg |-> [doc EXCEPT !.viewBox = doc.baseViewBox],
                      selectedLayer |-> JsNull])

\* deleteEntityBtn (and the Delete and Backspace keys, which click it),
\* disabled while generate() runs
ClickDelete ==
    /\ ~isGenerating
    /\ svg # JsNull
    /\ Decoded(svg) # JsNull
    /\ selectedShapeIds # {}
    /\ \E doc \in {Refreshed(SelectSeq(Decoded(svg).shapes,
                                       LAMBDA s : s.id \notin selectedShapeIds),
                             svg.viewBox)} :
          Handled(Shown(doc, frames)
                  @@ [latestSvg |-> [doc EXCEPT !.viewBox = doc.baseViewBox],
                      selectedShapeIds |-> {},
                      selectedLayer |-> JsNull])

\* The cell picked from the stamp sheet, and where the canvas is clicked.
SheetCell == [path |-> "M0,0h1v1h-1z", width |-> 6, height |-> 4]
PlacePoint == [x |-> 30 * Unit, y |-> 40 * Unit]

\* click on a cell of the stamp sheet
SelectStamp == sheetImage /\ Handled([stampShape |-> SheetCell, stampMode |-> TRUE])

\* transformIcon and stampIcon, and keydown of 'v' and 'b'
SetStampMode(enabled) == Handled([stampMode |-> enabled])

\* click in the preview: on the canvas in stamp mode a stamp is placed
\* after two animation frames; outside the svg element the stamp mode ends
Click(onSvg, inCanvas) ==
    IF stampMode /\ stampShape # JsNull /\ svg # JsNull /\ inCanvas
       /\ Decoded(svg) # JsNull
    THEN Handled([frames |-> Append(frames, [kind |-> "place",
                                             point |-> PlacePoint,
                                             metadata |-> Decoded(svg),
                                             viewBox |-> JsNull])])
    ELSE /\ stampMode
         /\ ~onSvg
         /\ Handled([stampMode |-> FALSE])

\* A placed stamp put on the first numeric layer.
createStampShapeNumbered(x, y, stampData, color) ==
    [type |-> "stamp", x |-> x, y |-> y,
     size |-> Max(stampData.width, stampData.height)
              * (IF fields.stampScale = 0 THEN Unit \div 4 ELSE fields.stampScale),
     color |-> color,
     pattern |-> IF fields.stampPattern = "" THEN "solid" ELSE fields.stampPattern,
     rotation |-> 0,
     layer |-> LayerNum(1),
     id |-> <<"shape", Now, clock>>,
     stampPath |-> stampData.path,
     stampWidth |-> stampData.width,
     stampHeight |-> stampData.height,
     stampPathResolution |-> STAMP_PATH_RESOLUTION]

createStampShape(x, y, stampData, color) ==
    [type |-> "stamp", x |-> x, y |-> y,
     size |-> Max(stampData.width, stampData.height)
              * (IF fields.stampScale = 0 THEN Unit \div 4 ELSE fields.stampScale),
     color |-> color,
     pattern |-> IF fields.stampPattern = "" THEN "solid" ELSE fields.stampPattern,
     rotation |-> 0,
     layer |-> LayerName("stamps"),
     id |-> <<"shape", Now, clock>>,
     stampPath |-> stampData.path,
     stampWidth |-> stampData.width,
     stampHeight |-> stampData.height,
     stampPathResolution |-> STAMP_PATH_RESOLUTION]

\* The view box of the element a waiting callback holds.
HeldViewBox(task) == IF task.viewBox = JsNull THEN svg.viewBox ELSE task.viewBox

\* The callback of a stamp placement.
PlaceStamp ==
    /\ frames # <<>>
    /\ Head(frames).kind = "place"
    /\ \E color \in {DEFAULT_COLORS[1]} :
       \E newShape \in {createStampShape(Head(frames).point.x, Head(frames).point.y,
                                         stampShape, color)} :
       \E doc \in {Refreshed(Append(Head(frames).metadata.shapes, newShape),
                             HeldViewBox(Head(frames)))} :
          Ran(Shown(doc, Tail(frames))
              @@ [latestSvg |-> [doc EXCEPT !.viewBox = doc.baseViewBox],
                  selectedShapeIds |-> {newShape.id},
                  clock |-> clock + 1])

\* bgTypeSolid and bgTypeStamp: the texture type is set and
\* applyBackground() renders the document again on the canvas of its
\* data-base-viewbox.
ClickBgType(textureType) ==
    IF svg = JsNull \/ Decoded(svg) = JsNull
    THEN Handled([background |-> [background EXCEPT !.textureType = textureType]])
    ELSE \E bg \in {[background EXCEPT !.textureType = textureType]} :
         \E doc \in {renderArtGridSvg(
                        [meta |-> [width |-> readBaseViewBox(svg).width \div Unit,
                                   height |-> readBaseViewBox(svg).height \div Unit,
                                   seed |-> IF Decoded(svg).seed # JsNull
                                            THEN Decoded(svg).seed
                                            ELSE SeedNum(readPositiveInt(fields.seed, Now)),
                                   shapeCount |-> Len(Decoded(svg).shapes)],
                         shapes |-> Decoded(svg).shapes,
                         background |-> bg])} :
            Handled(Shown([doc EXCEPT !.viewBox = svg.viewBox], frames)
                    @@ [latestSvg |-> doc, background |-> bg])

\* randomizeBtn, disabled while generate() runs: the selected layer is
\* regenerated after two animation frames; without one, a new composition
\* is generated from a random seed.  The waiting callback holds the
\* metadata decoded at the click; `layer` notes the layer selected at the
\* click, which the callback does not hold: it reads selectedLayer when
\* it runs.
ClickRandomize ==
    /\ ~isGenerating
    /\ IF selectedLayer # JsNull
       THEN /\ svg # JsNull
            /\ Decoded(svg) # JsNull
            /\ sheetImage
            /\ Handled([overlay |-> TRUE,
                        frames |-> Append(frames, [kind |-> "layer",
                                                   metadata |-> Decoded(svg),
                                                   viewBox |-> JsNull,
                                                   layer |-> selectedLayer])])
       ELSE Handled([clock |-> clock + 1]
                    @@ generate([fields EXCEPT !.seed = FieldInt(randomSeed)]))

\* layerOptions of a layer regeneration: the options of generate() with a
\* random seed and the number of the layer's shapes.
LayerOptions(f, layerShapes) ==
    [ReadOptions(f, Now) EXCEPT !.seed = SeedNum(randomSeed),
                                !.shapeCount = Len(layerShapes)]

\* The callback of a layer regeneration: as many shapes as the layer
\* selected now held at the click are generated from a random seed and
\* take the place of the layer's.
RegenerateLayer ==
    /\ frames # <<>>
    /\ Head(frames).kind = "layer"
    /\ \E made \in {generateArtGrid(
                       LayerOptions(fields, InLayer(Head(frames).metadata.shapes,
                                                    selectedLayer)),
                       defaultSeed)} :
       \E newLayerShapes \in {[i \in DOMAIN made.shapes |->
                                  [made.shapes[i] EXCEPT !.layer = selectedLayer]]} :
       \E doc \in {Refreshed(SelectSeq(Head(frames).metadata.shapes,
                                       LAMBDA s : s.layer # selectedLayer)
                             \o newLayerShapes,
                             HeldViewBox(Head(frames)))} :
          Ran(Shown(doc, Tail(frames))
              @@ [latestSvg |-> [doc EXCEPT !.viewBox = doc.baseViewBox],
                  selectedShapeIds |->
                      {newLayerShapes[i].id : i \in DOMAIN newLayerShapes},
                  overlay |-> FALSE,
                  clock |-> clock + 1])

\* The user types a number into the width field.
SetWidth(value) == Handled([fields |-> [fields EXCEPT !.width = value]])

(***************************************************************************)
(* The tool from the moment it is mounted with the default stamp sheet     *)
(* loaded: the first generate() waits for its animation frames.            *)
(***************************************************************************)
InitialFields ==
    [seed |-> FieldInt(42), width |-> FieldInt(100), height |-> FieldInt(200),
     shapeCount |-> FieldInt(20), spread |-> SpreadNum(100),
     minSize |-> FieldInt(8), maxSize |-> FieldInt(120),
     minTextureScale |-> Unit \div 2, maxTextureScale |-> 2 * Unit,
     randomRotation |-> TRUE, stampScale |-> Unit \div 4, stampPattern |-> "solid"]

Init ==
    /\ defaultSeed = SeedNum(1700000000)
    /\ engine = "spread"
    /\ caller = "tool"
    /\ options = JsNull
    /\ calls = <<>>
    /\ CodecIdle
    /\ fields = InitialFields
    /\ background = [color |-> "#000000", textureType |-> "solid", pattern |-> "dots",
                     textureScale |-> Unit]
    /\ latestSvg = JsNull
    /\ selectedShapeIds = {}
    /\ selectedLayer = JsNull
    /\ dragState = JsNull
    /\ isGenerating = TRUE
    /\ stampMode = FALSE
    /\ stampShape = JsNull
    /\ metadata = JsNull
    /\ viewBox = JsNull
    /\ frames = <<[kind |-> "generate", options |-> ReadOptions(InitialFields, 1700000000),
                   called |-> <<>>]>>
    /\ clock = 0
    /\ events = 0
    /\ generateCall = JsNull
    /\ localStorage = <<>>
    /\ fault = JsNull
    /\ overlay = TRUE /\ controlsDisabled = TRUE /\ sheetImage = TRUE
    /\ download = JsNull

Next ==
    \/ ClickGenerateNew
    \/ KeyM
    \/ GenerateResume
    \/ \E id \in Targets : PointerDownRotateGizmo(id)
    \/ \E id \in Targets : PointerDownScaleGizmo(id)
    \/ \E id \in Targets, shiftKey \in BOOLEAN : PointerDownShape(id, shiftKey)
    \/ PointerDownCanvas
    \/ PointerMove
    \/ EndDrag
    \/ \E factor \in ZoomFactors : Wheel(factor)
    \/ CenterCamera
    \/ \E layer \in LayersClicked : LayerClick(layer)
    \/ ClickDelete
    \/ SelectStamp
    \/ \E enabled \in BOOLEAN : SetStampMode(enabled)
    \/ \E onSvg \in BOOLEAN, inCanvas \in BOOLEAN : Click(onSvg, inCanvas)
    \/ PlaceStamp
    \/ \E textureType \in {"solid", "stamp"} : ClickBgType(textureType)
    \/ ClickRandomize
    \/ RegenerateLayer
    \/ \E value \in {FieldInt(100), FieldInt(140)} : SetWidth(value)

Spec == Init /\ [][Next]_vars

(***************************************************************************)
(* The tool mounted with input fields that hold any text: one field of the *)
(* initial settings holds a text that is not a number, zero, a negative    *)
(* number, a half or a number beyond the range of its control; and the     *)
(* two size sliders at positions that cross.                               *)
(***************************************************************************)
RawNumbers == {FieldNaN, FieldInt(0), FieldInt(-7), FieldNum(5), FieldInt(1000)}
RawSpreads == {SpreadNaN, SpreadNum(0), SpreadNum(-50), SpreadNum(1000)}

RawFields ==
    {[InitialFields EXCEPT ![k] = v] :
        k \in {"seed", "width", "height", "minSize", "maxSize"}, v \in RawNumbers}
    \cup {[InitialFields EXCEPT !.shapeCount = v] : v \in RawNumbers \ {FieldInt(1000)}}
    \cup {[InitialFields EXCEPT !.spread = v] : v \in RawSpreads}
    \cup {[InitialFields EXCEPT !.minSize = FieldInt(100), !.maxSize = FieldInt(10)],
          [InitialFields EXCEPT !.minSize = FieldInt(60), !.maxSize = FieldInt(60)]}

FieldsInit ==
    /\ defaultSeed = SeedNum(1700000000)
    /\ engine = "spread"
    /\ caller = "tool"
    /\ options = JsNull
    /\ calls = <<>>
    /\ CodecIdle
    /\ fields \in RawFields
    /\ background = [color |-> "#000000", textureType |-> "solid", pattern |-> "dots",
                     textureScale |-> Unit]
    /\ latestSvg = JsNull
    /\ selectedShapeIds = {}
    /\ selectedLayer = JsNull
    /\ dragState = JsNull
    /\ isGenerating = TRUE
    /\ stampMode = FALSE
    /\ stampShape = JsNull
    /\ metadata = JsNull
    /\ viewBox = JsNull
    /\ frames = <<[kind |-> "generate", options |-> ReadOptions(fields, 1700000000),
                   called |-> <<>>]>>
    /\ clock = 0
    /\ events = 0
    /\ generateCall = JsNull
    /\ localStorage = <<>>
    /\ fault = JsNull
    /\ overlay = TRUE /\ controlsDisabled = TRUE /\ sheetImage = TRUE
    /\ download = JsNull

FieldsNext ==
    \/ GenerateResume
    \/ ClickGenerateNew
    \/ \E layer \in LayersClicked : LayerClick(layer)
    \/ ClickRandomize
    \/ RegenerateLayer

FieldsSpec == FieldsInit /\ [][FieldsNext]_vars

(***************************************************************************)
(* bindSvgInteractions() on the documents of every encoding: those of the  *)
(* renderer, those of the bounded-placement variant's renderer (no layer   *)
(* in the metadata), and documents whose metadata was written elsewhere.   *)
(***************************************************************************)
BindConfigurations ==
    {[SpreadBase EXCEPT !.shapeCount = n, !.seed = s] :
        n \in 0..5, s \in {SeedNum(42), SeedNum(7907)}}
    \cup {SpreadBase @@ [stamps |-> StampPool]}

\* Layers written elsewhere into the metadata of every other shape.
GivenLayers == {LayerNum(0), LayerNum(-2), LayerName("stamps")}

WithLayersGiven(doc, layer) ==
    persistMetadata(doc,
        [Decoded(doc) EXCEPT !.shapes =
            [i \in DOMAIN @ |->
                IF i % 2 = 1 THEN [@[i] EXCEPT !.layer = layer] ELSE @[i]]])

BindDocuments ==
    {renderArtGridSvg(generateArtGrid(o, SeedNum(1700000000))) : o \in BindConfigurations}
    \cup {renderArtGridSvgBounded(generateArtGrid(o, SeedNum(1700000000))) :
             o \in BindConfigurations}
    \cup {WithLayersGiven(renderArtGridSvg(generateArtGrid(o, SeedNum(1700000000))), l) :
             o \in BindConfigurations, l \in GivenLayers}

\* The mounted tool with a document put into the page by setSvgContent.
BindInit ==
    /\ defaultSeed = SeedNum(1700000000)
    /\ engine = "spread"
    /\ caller = "tool"
    /\ options = JsNull
    /\ calls = <<>>
    /\ grid = JsNull
    /\ svg \in BindDocuments
    /\ decoded = JsNull
    /\ fields = InitialFields
    /\ background = [color |-> "#000000", textureType |-> "solid", pattern |-> "dots",
                     textureScale |-> Unit]
    /\ latestSvg = svg
    /\ selectedShapeIds = {}
    /\ selectedLayer = JsNull
    /\ dragState = JsNull
    /\ isGenerating = FALSE
    /\ stampMode = FALSE
    /\ stampShape = JsNull
    /\ metadata = JsNull
    /\ viewBox = JsNull
    /\ frames = <<>>
    /\ clock = 0
    /\ events = 0
    /\ generateCall = JsNull
    /\ localStorage = <<>>
    /\ fault = JsNull
    /\ overlay = FALSE /\ controlsDisabled = FALSE /\ sheetImage = TRUE
    /\ download = JsNull

\* bindSvgInteractions(), decoded holding what the document said before
Bind ==
    /\ decoded # JsNull
    /\ decoded.svg = svg
    /\ Handled(bindSvgInteractions(svg))

BindNext ==
    \/ Decode
    \/ Bind

BindSpec == BindInit /\ [][BindNext]_vars

\* The shape as the document had it before bindSvgInteractions ran.
DecodedShape(i) == decoded.outcome.value.shapes[i]

\* C13: once bindSvgInteractions has run, every shape the tool holds has a
\* layer that is an integer of 1..5 or 'stamps'; a shape decoded without a
\* layer or with a layer below 1 has (index mod 5) + 1, every other shape
\* the layer it was decoded with; the document in the page says the same.
LayerDomain ==
    (metadata # JsNull /\ decoded # JsNull) =>
        /\ Decoded(svg).shapes = metadata.shapes
        /\ \A i \in DOMAIN metadata.shapes :
              /\ metadata.shapes[i].layer
                    \in {LayerNum(n) : n \in 1..5} \cup {LayerName("stamps")}
              /\ IF ~Has(DecodedShape(i), "layer") THEN
                     metadata.shapes[i].layer = LayerNum(((i - 1) % 5) + 1)
                 ELSE IF Has(DecodedShape(i).layer, "num")
                         /\ DecodedShape(i).layer.num < 1 THEN
                     metadata.shapes[i].layer = LayerNum(((i - 1) % 5) + 1)
                 ELSE metadata.shapes[i].layer = DecodedShape(i).layer

\* A document of six shapes without layers was bound: the sixth shape has
\* the layer 1 again.
LayerDomainWitness ==
    /\ metadata # JsNull /\ decoded # JsNull
    /\ Len(metadata.shapes) = 6
    /\ ~Has(DecodedShape(6), "layer")
    /\ metadata.shapes[6].layer = LayerNum(1)
    /\ metadata.shapes[5].layer = LayerNum(5)

(***************************************************************************)
(* Properties of the tool.                                                 *)
(***************************************************************************)
\* The groups and the pattern definitions of the document are those that
\* the renderer makes for the shapes of the document's metadata.
InSync ==
    /\ svg.shapes = [i \in DOMAIN Decoded(svg).shapes |->
                        renderShape(Decoded(svg).shapes[i], i - 1)]
    /\ svg.patterns = [i \in DOMAIN Decoded(svg).shapes |->
                          createPatternDef(Decoded(svg).shapes[i], i - 1)]

\* C5: once an editing operation is completed (no gesture is in progress),
\* every shape's group (transform, data-plan-x/y, primitive dimensions, hit
\* area) and pattern definition in the document agree with the shape's entry
\* in the embedded metadata.
SvgMetadataInSync ==
    (svg # JsNull /\ Decoded(svg) # JsNull /\ dragState = JsNull) => InSync

\* C7: between two full generations no step changes the document's
\* data-base-viewbox, whatever the width and height fields hold.
BaseViewBoxKept ==
    [][(svg # JsNull /\ svg' # JsNull /\ ~(isGenerating /\ ~isGenerating'))
          => readBaseViewBox(svg') = readBaseViewBox(svg)]_vars

\* The shapes of the composition in the page.
ShapesInPage ==
    IF svg = JsNull \/ Decoded(svg) = JsNull THEN <<>> ELSE Decoded(svg).shapes

\* createStampShape gives the id shape-<time>-<number>, generateShape the
\* id shape-<number>.
PlacedByHand(shape) == Len(shape.id) = 3

\* C14 as stated: in every composition of the tool, every shape of type
\* 'stamp' has the layer 'stamps' and no shape of another type has it.
StampsOwnLayerAsStated ==
    \A i \in DOMAIN ShapesInPage :
        ShapesInPage[i].type = "stamp" <=> LayerOrOne(ShapesInPage[i]) = LayerName("stamps")

\* C14: in every composition of the tool, every shape made by
\* createStampShape has type 'stamp' and the layer 'stamps', and no shape
\* of another type has the layer 'stamps'; a shape of type 'stamp' made by
\* the generator has a layer of 1..5, or 'stamps' once the layer 'stamps'
\* was regenerated.
StampsOwnLayer ==
    \A i \in DOMAIN ShapesInPage :
        /\ PlacedByHand(ShapesInPage[i]) =>
              /\ ShapesInPage[i].type = "stamp"
              /\ LayerOrOne(ShapesInPage[i]) = LayerName("stamps")
        /\ LayerOrOne(ShapesInPage[i]) = LayerName("stamps") => ShapesInPage[i].type = "stamp"
        /\ ~PlacedByHand(ShapesInPage[i]) =>
              LayerOrOne(ShapesInPage[i])
                  \in {LayerNum(n) : n \in 1..5} \cup {LayerName("stamps")}

\* The page holds a stamp placed by hand and a generated stamp shape of a
\* numeric layer.
StampsOwnLayerWitness ==
    /\ \E i \in DOMAIN ShapesInPage : PlacedByHand(ShapesInPage[i])
    /\ \E i \in DOMAIN ShapesInPage :
          /\ ~PlacedByHand(ShapesInPage[i])
          /\ ShapesInPage[i].type = "stamp"
          /\ LayerOrOne(ShapesInPage[i]) \in {LayerNum(n) : n \in 1..5}

OptionsWaiting ==
    {frames[i].options : i \in {j \in DOMAIN frames : frames[j].kind = "generate"}}
    \cup {LayerOptions(fields, InLayer(frames[i].metadata.shapes, selectedLayer)) :
             i \in {j \in DOMAIN frames : frames[j].kind = "layer"}}

SizeRangeOrdered ==
    \A o \in OptionsWaiting : 0 < o.minSize /\ o.minSize <= o.maxSize


(***************************************************************************)
(* The page is loaded again: the tool is mounted anew over the storage the *)
(* page before left, and the default stamp sheet is loaded.                *)
(***************************************************************************)
\* The values the fields are created with: saved?.x ?? default
MountedFields(saved) ==
    IF saved = JsNull THEN [InitialFields EXCEPT !.seed = FieldInt(randomSeed)]
    ELSE [saved.fields EXCEPT !.seed = FieldInt(saved.seed)]

MountedBackground(saved) ==
    IF saved = JsNull
    THEN [color |-> "#000000", textureType |-> "solid", pattern |-> "dots",
          textureScale |-> Unit]
    ELSE saved.background

\* mountArtGridTool and the onload of loadStampSheet: the preview holds no
\* svg, so generate() is called.
Mount ==
    \E saved \in {loadSettings} :
    \E f \in {MountedFields(saved)} :
       Handled([svg |-> JsNull,
                fields |-> [f EXCEPT !.seed = FieldInt(readPositiveInt(f.seed, Now))],
                background |-> MountedBackground(saved),
                latestSvg |-> JsNull,
                selectedShapeIds |-> {},
                selectedLayer |-> JsNull,
                dragState |-> JsNull,
                isGenerating |-> TRUE,
                overlay |-> TRUE,
                controlsDisabled |-> TRUE,
                sheetImage |-> TRUE,
                stampMode |-> FALSE,
                stampShape |-> JsNull,
                metadata |-> JsNull,
                viewBox |-> JsNull,
                frames |-> <<[kind |-> "generate", options |-> ReadOptions(f, Now),
                              called |-> <<>>]>>,
                generateCall |-> JsNull,
                clock |-> clock + 1])

MountNext ==
    \/ GenerateResume
    \/ ClickGenerateNew
    \/ \E value \in {FieldInt(100), FieldInt(140)} : SetWidth(value)
    \/ SelectStamp
    \/ \E onSvg \in BOOLEAN, inCanvas \in BOOLEAN : Click(onSvg, inCanvas)
    \/ PlaceStamp
    \/ Mount

MountSpec == Init /\ [][MountNext]_vars

\* C24: once a generation has completed, the storage holds the rendered
\* composition, and a mount over that storage shows the shapes of the page
\* before, in their order, and generates nothing.
PersistentComposition ==
    [][/\ generateCall' # JsNull => Has(localStorage', LATEST_SVG_KEY)
       /\ Mount /\ generateCall # JsNull /\ frames = <<>>
             => /\ svg' # JsNull
                /\ ShapesInPage' = ShapesInPage
                /\ ~isGenerating']_vars

\* The part of it about the mount alone.
MountShowsComposition ==
    [][Mount /\ generateCall # JsNull /\ frames = <<>>
          => svg' # JsNull /\ ShapesInPage' = ShapesInPage /\ ~isGenerating']_vars

\* The settings are stored when a generation completes.
SettingsSaved == generateCall # JsNull => loadSettings # JsNull

\* A mount over stored settings generates from the stored seed.
MountReadsSettings ==
    [][Mount /\ loadSettings # JsNull
          => Head(frames').options.seed
               = SeedNum(loadSettings.seed)]_vars

(***************************************************************************)
(* The tool when a call of generateArtGrid or renderArtGridSvg may raise   *)
(* an exception (a RangeError of the string builder or of the stack, for   *)
(* one): next to every handler that calls the engine stands the same       *)
(* handler with the call raising.  A try without a catch clause runs its   *)
(* finally clause and lets the exception leave the handler.                *)
(***************************************************************************)
\* generate() with a catch clause and no finally clause.
GenerateThrowsWithoutFinally ==
    /\ frames # <<>>
    /\ Head(frames).kind = "generate"
    /\ Ran([fault |-> [site |-> "generate", caught |-> TRUE,
                       status |-> "Could not generate art grid"]])

\* generate() after its wait, the try block raising: the catch clause
\* writes the status, the finally clause resets isGenerating.
GenerateThrows ==
    /\ frames # <<>>
    /\ Head(frames).kind = "generate"
    /\ Ran([isGenerating |-> FALSE,
            overlay |-> FALSE,
            controlsDisabled |-> FALSE,
            fault |-> [site |-> "generate", caught |-> TRUE,
                       status |-> "Could not generate art grid"]])

\* The callback of a stamp placement, renderArtGridSvg raising: try and
\* finally without a catch clause.
PlaceStampThrows ==
    /\ frames # <<>>
    /\ Head(frames).kind = "place"
    /\ Ran([fault |-> [site |-> "place", caught |-> FALSE, status |-> ""],
            clock |-> clock + 1])

\* deleteEntityBtn, renderArtGridSvg raising: no try statement; the
\* selection was cleared before the call.
ClickDeleteThrows ==
    /\ ~isGenerating
    /\ svg # JsNull
    /\ Decoded(svg) # JsNull
    /\ selectedShapeIds # {}
    /\ Handled([selectedShapeIds |-> {},
                selectedLayer |-> JsNull,
                fault |-> [site |-> "delete", caught |-> FALSE, status |-> ""]])

\* applyBackground, renderArtGridSvg raising: no try statement; the
\* background was assigned before the call.
ClickBgTypeThrows(textureType) ==
    /\ svg # JsNull
    /\ Decoded(svg) # JsNull
    /\ Handled([background |-> [background EXCEPT !.textureType = textureType],
                fault |-> [site |-> "background", caught |-> FALSE, status |-> ""]])

\* The callback of a layer regeneration, generateArtGrid or
\* renderArtGridSvg raising: try and finally without a catch clause.
RegenerateLayerThrows ==
    /\ frames # <<>>
    /\ Head(frames).kind = "layer"
    /\ Ran([fault |-> [site |-> "layer", caught |-> FALSE, status |-> ""],
            overlay |-> FALSE,
            clock |-> clock + 1])

FaultNext ==
    \/ ClickGenerateNew
    \/ GenerateResume
    \/ GenerateThrows
    \/ \E layer \in LayersClicked : LayerClick(layer)
    \/ ClickDelete
    \/ ClickDeleteThrows
    \/ SelectStamp
    \/ \E onSvg \in BOOLEAN, inCanvas \in BOOLEAN : Click(onSvg, inCanvas)
    \/ PlaceStamp
    \/ PlaceStampThrows
    \/ \E textureType \in {"solid", "stamp"} : ClickBgType(textureType)
    \/ \E textureType \in {"solid", "stamp"} : ClickBgTypeThrows(textureType)
    \/ ClickRandomize
    \/ RegenerateLayer
    \/ RegenerateLayerThrows

FaultSpec == Init /\ [][FaultNext]_vars

\* C25: an exception that a call of generateArtGrid or renderArtGridSvg
\* raised in the tool was caught at the call site and reported in the
\* status message.
ExceptionsCaught ==
    fault # JsNull => fault.caught /\ fault.status # ""

\* The exceptions of generate() are caught and reported.
GenerateExceptionsCaught ==
    fault # JsNull /\ fault.site = "generate" => fault.caught /\ fault.status # ""

(***************************************************************************)
(* Layer regeneration.                                                     *)
(***************************************************************************)
\* The step is the callback of a layer regeneration.
LayerCallbackRan ==
    /\ frames # <<>>
    /\ Head(frames).kind = "layer"
    /\ Len(frames') = Len(frames) - 1

\* shapes without those of the layer
NotInLayer(shapes, layer) == SelectSeq(shapes, LAMBDA s : s.layer # layer)

\* The ids of the shapes.
IdsOf(shapes) == {shapes[i].id : i \in DOMAIN shapes}

\* C27: the callback of a layer regeneration leaves every shape of the
\* page whose layer is not the layer that was selected when Randomize was
\* clicked as it is and where it is among them, and every shape that it
\* adds to the page carries that layer.
OnlySelectedLayerTouched ==
    [][LayerCallbackRan =>
          /\ NotInLayer(ShapesInPage', Head(frames).layer)
                = NotInLayer(ShapesInPage, Head(frames).layer)
          /\ \A i \in DOMAIN ShapesInPage' :
                ShapesInPage'[i].id \notin IdsOf(ShapesInPage)
                   => ShapesInPage'[i].layer = Head(frames).layer]_vars

\* The same for a callback that finds the page and the selection as the
\* click left them.
OnlySelectedLayerTouchedUndisturbed ==
    [][LayerCallbackRan /\ selectedLayer = Head(frames).layer
                        /\ ShapesInPage = Head(frames).metadata.shapes =>
          /\ NotInLayer(ShapesInPage', Head(frames).layer)
                = NotInLayer(ShapesInPage, Head(frames).layer)
          /\ \A i \in DOMAIN ShapesInPage' :
                ShapesInPage'[i].id \notin IdsOf(ShapesInPage)
                   => ShapesInPage'[i].layer = Head(frames).layer]_vars

\* C28: a layer regeneration whose callback finds the page and the
\* selection as the click left them leaves the selected layer with as many
\* shapes as it held, and the composition with as many as it held.
LayerSizeKept ==
    [][LayerCallbackRan /\ selectedLayer = Head(frames).layer
                        /\ ShapesInPage = Head(frames).metadata.shapes =>
          /\ Len(InLayer(ShapesInPage', selectedLayer))
                = Len(InLayer(ShapesInPage, selectedLayer))
          /\ Len(ShapesInPage') = Len(ShapesInPage)]_vars

\* What the callback does: a layer of n shapes is left with the n shapes
\* of the main loop and the floor(0.3 * n) decorative shapes of
\* generateArtGrid.
LayerSizeGrown ==
    [][LayerCallbackRan /\ selectedLayer = Head(frames).layer
                        /\ ShapesInPage = Head(frames).metadata.shapes =>
          Len(InLayer(ShapesInPage', selectedLayer))
             = Len(InLayer(ShapesInPage, selectedLayer))
               + DecorativeCount(Len(InLayer(ShapesInPage, selectedLayer)))]_vars

(***************************************************************************)
(* Deferred stamp placement.                                               *)
(***************************************************************************)
\* The step is the callback of a stamp placement.
PlaceCallbackRan ==
    /\ frames # <<>>
    /\ Head(frames).kind = "place"
    /\ Len(frames') = Len(frames) - 1

\* C29: the callback of every accepted placement click leaves the page
\* with the shapes it held, in their order, and one new stamp after them.
NoLostPlacement ==
    [][PlaceCallbackRan =>
          /\ Len(ShapesInPage') = Len(ShapesInPage) + 1
          /\ SubSeq(ShapesInPage', 1, Len(ShapesInPage)) = ShapesInPage
          /\ ShapesInPage'[Len(ShapesInPage')].type = "stamp"
          /\ ShapesInPage'[Len(ShapesInPage')].id \notin IdsOf(ShapesInPage)]_vars

\* The same for a callback that finds the page as its click left it.
NoLostPlacementUndisturbed ==
    [][PlaceCallbackRan /\ ShapesInPage = Head(frames).metadata.shapes =>
          /\ Len(ShapesInPage') = Len(ShapesInPage) + 1
          /\ SubSeq(ShapesInPage', 1, Len(ShapesInPage)) = ShapesInPage
          /\ ShapesInPage'[Len(ShapesInPage')].type = "stamp"
          /\ ShapesInPage'[Len(ShapesInPage')].id \notin IdsOf(ShapesInPage)]_vars

(***************************************************************************)
(* Re-entrance of generate().                                              *)
(***************************************************************************)
\* The calls of generate() that wait for their animation frames.
GeneratesWaiting == SelectSeq(frames, LAMBDA task : task.kind = "generate")

\* C30: while a call of generate() is under way, one call and no more
\* waits to render, whatever was requested meanwhile, and none waits
\* when no call is under way; the options of the call under way stay
\* as it read them, and the M key pressed meanwhile changes neither the
\* document nor what waits.
NotReentrant ==
    [][/\ Len(GeneratesWaiting') = (IF isGenerating' THEN 1 ELSE 0)
       /\ isGenerating /\ isGenerating'
             => GeneratesWaiting'[1].options = GeneratesWaiting[1].options
       /\ isGenerating /\ KeyM
             => svg' = svg /\ latestSvg' = latestSvg /\ frames' = frames]_vars

\* The M key was pressed while generate() was under way: the seed field
\* holds the new seed, and the call under way renders the seed it read.
NotReentrantWitness ==
    /\ isGenerating
    /\ events > 0
    /\ Len(GeneratesWaiting) = 1
    /\ GeneratesWaiting[1].options.seed # SeedNum(readPositiveInt(fields.seed, Now))

(***************************************************************************)
(* The busy state.  The tool is mounted before or after the default stamp  *)
(* sheet has loaded, a call of the engine may raise, and a callback that   *)
(* waits for its animation frames is run in the end.                       *)
(***************************************************************************)
BusyInit ==
    /\ defaultSeed = SeedNum(1700000000)
    /\ engine = "spread"
    /\ caller = "tool"
    /\ options = JsNull
    /\ calls = <<>>
    /\ CodecIdle
    /\ fields = InitialFields
    /\ background = [color |-> "#000000", textureType |-> "solid", pattern |-> "dots",
                     textureScale |-> Unit]
    /\ latestSvg = JsNull
    /\ selectedShapeIds = {}
    /\ selectedLayer = JsNull
    /\ dragState = JsNull
    /\ stampMode = FALSE
    /\ stampShape = JsNull
    /\ metadata = JsNull
    /\ viewBox = JsNull
    /\ clock = 0
    /\ events = 0
    /\ generateCall = JsNull
    /\ localStorage = <<>>
    /\ fault = JsNull
    /\ sheetImage \in BOOLEAN
    /\ download = JsNull
    /\ isGenerating = sheetImage
    /\ overlay = sheetImage
    /\ controlsDisabled = sheetImage
    /\ frames = IF sheetImage
                THEN <<[kind |-> "generate",
                        options |-> ReadOptions(InitialFields, 1700000000),
                        called |-> <<>>]>>
                ELSE <<>>

\* img.onload of loadStampSheet: the sheet is kept, and generate() is
\* called when the preview holds no svg.
LoadStampSheet ==
    IF svg = JsNull /\ ~isGenerating
    THEN Handled([sheetImage |-> TRUE] @@ Started(fields))
    ELSE Handled([sheetImage |-> TRUE])

\* A callback that waits for its animation frames runs, its call of the
\* engine raising or returning.
CallbackRuns ==
    \/ GenerateThrows
    \/ RegenerateLayerThrows
    \/ GenerateResume
    \/ RegenerateLayer

BusyNext ==
    \/ KeyM
    \/ ClickGenerateNew
    \/ LoadStampSheet
    \/ GenerateResume
    \/ GenerateThrows
    \/ \E layer \in LayersClicked : LayerClick(layer)
    \/ ClickRandomize
    \/ RegenerateLayer
    \/ RegenerateLayerThrows

BusySpec == BusyInit /\ [][BusyNext]_vars /\ WF_vars(CallbackRuns)

BusyControls == controlsDisabled => isGenerating

BusyAbandoned ==
    /\ ~sheetImage
    /\ events > 0
    /\ ~isGenerating /\ ~overlay /\ ~controlsDisabled /\ frames = <<>>

(***************************************************************************)
(* Delete.  The tool is mounted with a seed whose composition holds two    *)
(* shapes of one id: generateShape draws the id of a shape from the        *)
(* stream, one of a million values.                                        *)
(***************************************************************************)
\* The tool as mountArtGridTool leaves it with the fields f, the default
\* stamp sheet loaded and the first generate() waiting.
MountedWith(f) ==
    /\ defaultSeed = SeedNum(1700000000)
    /\ engine = "spread"
    /\ caller = "tool"
    /\ options = JsNull
    /\ calls = <<>>
    /\ CodecIdle
    /\ fields = f
    /\ background = [color |-> "#000000", textureType |-> "solid", pattern |-> "dots",
                     textureScale |-> Unit]
    /\ latestSvg = JsNull
    /\ selectedShapeIds = {}
    /\ selectedLayer = JsNull
    /\ dragState = JsNull
    /\ isGenerating = TRUE
    /\ stampMode = FALSE
    /\ stampShape = JsNull
    /\ metadata = JsNull
    /\ viewBox = JsNull
    /\ frames = <<[kind |-> "generate", options |-> ReadOptions(f, 1700000000),
                   called |-> <<>>]>>
    /\ clock = 0
    /\ events = 0
    /\ generateCall = JsNull
    /\ localStorage = <<>>
    /\ fault = JsNull
    /\ overlay = TRUE /\ controlsDisabled = TRUE /\ sheetImage = TRUE
    /\ download = JsNull

DeleteInit == MountedWith([InitialFields EXCEPT !.seed = FieldInt(7513)])

DeleteNext ==
    \/ GenerateResume
    \/ \E id \in Targets, shiftKey \in BOOLEAN : PointerDownShape(id, shiftKey)
    \/ PointerDownCanvas
    \/ EndDrag
    \/ \E factor \in ZoomFactors : Wheel(factor)
    \/ \E layer \in LayersClicked : LayerClick(layer)
    \/ ClickDelete

DeleteSpec == DeleteInit /\ [][DeleteNext]_vars

\* The shapes of the page that Delete leaves: those whose id is not selected.
NotSelected == SelectSeq(ShapesInPage, LAMBDA s : s.id \notin selectedShapeIds)

\* C32: Delete removes from the composition the shapes the user had
\* selected and no other: with one shape selected by the pointer, the
\* composition holds one shape less afterwards; and it clears the
\* selection and the selected layer.
DeleteRemovesSelection ==
    [][(ClickDelete /\ selectedLayer = JsNull /\ Cardinality(selectedShapeIds) = 1)
          => /\ Len(ShapesInPage') = Len(ShapesInPage) - 1
             /\ selectedShapeIds' = {}
             /\ selectedLayer' = JsNull]_vars

\* What Delete does: the shapes whose id is selected are removed, however
\* many they are, and the others stay as they are and in their order.
DeleteRemovesSelectedIds ==
    [][ClickDelete => /\ ShapesInPage' = NotSelected
                      /\ selectedShapeIds' = {}
                      /\ selectedLayer' = JsNull]_vars

\* Two shapes of the page have one id.
SharedId ==
    \E i, j \in DOMAIN ShapesInPage : i < j /\ ShapesInPage[i].id = ShapesInPage[j].id

\* C33: every selected id is the id of a shape of the composition in the
\* page.
SelectionExists == selectedShapeIds \subseteq IdsOf(ShapesInPage)

\* A stamp placed by hand is selected while another callback waits, and
\* shapes of the first composition have been removed.
SelectionExistsWitness ==
    /\ \E id \in selectedShapeIds : Len(id) = 3
    /\ frames # <<>>
    /\ selectedShapeIds \subseteq IdsOf(ShapesInPage)

\* Shapes are selected after shapes were deleted.
SelectionAfterDelete ==
    /\ selectedShapeIds # {}
    /\ svg # JsNull /\ Len(ShapesInPage) < 26
    /\ selectedShapeIds \subseteq IdsOf(ShapesInPage)

\* The ids of the shapes of the page that are in the layer.
IdsInLayer(layer) ==
    {ShapesInPage[i].id : i \in {j \in DOMAIN ShapesInPage :
                                    LayerOrOne(ShapesInPage[j]) = layer}}

\* C34: while a layer is selected, the selected ids are the ids of the
\* shapes of that layer.
LayerSelectionAgree ==
    selectedLayer # JsNull => selectedShapeIds = IdsInLayer(selectedLayer)

\* The click on a layer button selects the ids of the layer's shapes.
LayerClickAgrees ==
    [][(\E layer \in LayersClicked : LayerClick(layer)) /\ selectedLayer' # JsNull
          => selectedShapeIds' = IdsInLayer(selectedLayer')]_vars

\* A layer is selected and the selection is another set of shapes.
LayerSelectionApart ==
    /\ selectedLayer # JsNull
    /\ selectedShapeIds # IdsInLayer(selectedLayer)
    /\ frames = <<>>

(***************************************************************************)
(* Rotate gestures.  The pointer is moved round the shape in steps of 20   *)
(* degrees, with and without the shift key.                                *)
(***************************************************************************)
\* Where the pointer is moved to: the direction from the centre of the
\* shape, as Math.atan2 gives it (-180 to 180 degrees).
RotateAngles == {k * 20 * Unit : k \in -9 .. 9}

\* pointermove during a rotate gesture
PointerMoveRotate(angle, shiftKey) ==
    /\ Bound /\ dragState # JsNull
    /\ dragState.kind = "rotate"
    /\ Find(dragState.id) # JsNull
    /\ \E shape \in {[Find(dragState.id)
                        EXCEPT !.rotation = NewRotation(angle, shiftKey)]} :
          Handled([metadata |-> SetShape(shape),
                   svg |-> SetAttributes(dragState.id, GroupTransform(shape), "", <<>>)])

RotateNext ==
    \/ GenerateResume
    \/ \E id \in Targets, shiftKey \in BOOLEAN : PointerDownShape(id, shiftKey)
    \/ \E id \in Targets : PointerDownRotateGizmo(id)
    \/ \E angle \in RotateAngles, shiftKey \in BOOLEAN : PointerMoveRotate(angle, shiftKey)
    \/ EndDrag

RotateSpec == Init /\ [][RotateNext]_vars

\* The rotations of the shapes of the page and of the metadata that the
\* handlers hold.
Rotations ==
    {ShapesInPage[i].rotation : i \in DOMAIN ShapesInPage}
    \cup (IF metadata = JsNull THEN {}
          ELSE {metadata.shapes[i].rotation : i \in DOMAIN metadata.shapes})

RotatedFreely ==
    /\ dragState # JsNull
    /\ dragState.kind = "rotate"
    /\ Find(dragState.id) # JsNull
    /\ Find(dragState.id).rotation # dragState.startRotation
    /\ Find(dragState.id).rotation % (45 * Unit) # 0

(***************************************************************************)
(* Zoom.  The wheel is turned up to MaxTurns times over the composition,   *)
(* 120 units in or out at each turn.                                       *)
(***************************************************************************)
MaxTurns == 10

\* wheel: zoomAtPointer, turn after turn
WheelTurn(factor) ==
    /\ Bound /\ dragState = JsNull
    /\ events < MaxTurns
    /\ \E zoomed \in {ZoomedViewBox(svg.viewBox, readBaseViewBox(svg), factor)} :
       /\ zoomed.width # svg.viewBox.width \/ zoomed.height # svg.viewBox.height
       /\ \E doc \in {persistMetadata([svg EXCEPT !.viewBox = zoomed], metadata)} :
          \E assigned \in {Shown(doc, frames) @@ [latestSvg |-> doc]} :
             Assigned(assigned)
    /\ events' = events + 1

ZoomNext ==
    \/ GenerateResume
    \/ \E factor \in ZoomFactors : WheelTurn(factor)
    \/ CenterCamera

ZoomSpec == Init /\ [][ZoomNext]_vars

\* C36: the view box of the composition is no narrower than the larger of
\* 1 and a fifth of the width of the base view box and no wider than 8
\* times that width, and likewise its height.
ZoomBounded ==
    (svg # JsNull /\ Has(svg, "baseViewBox")) =>
        /\ svg.viewBox.width >= Max(Unit, svg.baseViewBox.width \div 5)
        /\ svg.viewBox.width <= 8 * svg.baseViewBox.width
        /\ svg.viewBox.height >= Max(Unit, svg.baseViewBox.height \div 5)
        /\ svg.viewBox.height <= 8 * svg.baseViewBox.height

\* The lower bounds alone.
ZoomBoundedBelow ==
    (svg # JsNull /\ Has(svg, "baseViewBox")) =>
        /\ svg.viewBox.width >= Max(Unit, svg.baseViewBox.width \div 5)
        /\ svg.viewBox.height >= Max(Unit, svg.baseViewBox.height \div 5)

\* Every turn of the wheel is bounded by 8 times the view box that the
\* handlers were bound with, which is the view box of the turn before.
ZoomBoundFollows ==
    [][(\E factor \in ZoomFactors : WheelTurn(factor))
          => /\ svg'.viewBox.width <= Max(8 * svg.viewBox.width, 8 * svg.baseViewBox.width)
             /\ viewBox' = svg'.viewBox]_vars

\* The view is zoomed in as far as it goes.
ZoomedIn ==
    /\ svg # JsNull /\ Has(svg, "baseViewBox")
    /\ svg.viewBox.width = Max(Unit, svg.baseViewBox.width \div 5)

\* The view is more than 8 times as wide as the canvas.
ZoomedOut ==
    /\ svg # JsNull /\ Has(svg, "baseViewBox")
    /\ svg.viewBox.width > 8 * svg.baseViewBox.width

(***************************************************************************)
(* Export.  latestSvg is the outerHTML of the page's element, taken in     *)
(* some view of the editor.                                                *)
(***************************************************************************)
\* The editor's elements that the element of the page holds when its
\* outerHTML is taken: none, the canvas boundary, or the boundary with
\* the groups of the selection outlines and of the hover outline.
EditorViews ==
    {{}, {"canvas-boundary"}, {"canvas-boundary", "selection-outlines", "hover-outlines"}}

\* The document with the editor's elements els in it.
WithEditorElements(doc, els) == [editor |-> els] @@ doc

\* getExportReadySvg that keeps the view box of the text.
getExportReadySvgZoomed(doc, includeGrid) ==
    IF doc = JsNull THEN doc
    ELSE [k \in (DOMAIN doc \ {"editor"})
                \cup (IF includeGrid THEN {"exportGrid"} ELSE {}) |->
             CASE k = "shapes" ->
                    [i \in DOMAIN doc.shapes |->
                        [doc.shapes[i] EXCEPT !.children =
                            SelectSeq(@, LAMBDA c : ~(Has(c, "class")
                                                      /\ c.class = "art-shape-hit-area"))]]
               [] k = "exportGrid" -> readBaseViewBox(doc)
               [] OTHER -> doc[k]]

\* getExportReadySvg: the editor's elements and the hit areas are removed,
\* the grid is drawn over the base view box when it is asked for, and the
\* view box is set to data-base-viewbox.  (The fill of the background
\* rect, set when it is missing, is never missing in a document of the
\* renderer.)
getExportReadySvg(doc, includeGrid) ==
    IF doc = JsNull THEN doc
    ELSE [k \in (DOMAIN doc \ {"editor"})
                \cup (IF includeGrid THEN {"exportGrid"} ELSE {}) |->
             CASE k = "shapes" ->
                    [i \in DOMAIN doc.shapes |->
                        [doc.shapes[i] EXCEPT !.children =
                            SelectSeq(@, LAMBDA c : ~(Has(c, "class")
                                                      /\ c.class = "art-shape-hit-area"))]]
               [] k = "viewBox" -> IF Has(doc, "baseViewBox") THEN doc.baseViewBox
                                   ELSE doc.viewBox
               [] k = "exportGrid" -> readBaseViewBox(doc)
               [] OTHER -> doc[k]]

\* runExport: the save menu, whose button is disabled while generate()
\* runs
RunExport(els, includeGrid) ==
    /\ ~controlsDisabled
    /\ latestSvg # JsNull
    /\ Handled([download |-> getExportReadySvg(WithEditorElements(latestSvg, els),
                                               includeGrid)])

ExportNext ==
    \/ GenerateResume
    \/ \E id \in Targets, shiftKey \in BOOLEAN : PointerDownShape(id, shiftKey)
    \/ PointerDownCanvas
    \/ PointerMove
    \/ EndDrag
    \/ \E factor \in ZoomFactors : Wheel(factor)
    \/ ClickDelete
    \/ SelectStamp
    \/ \E onSvg \in BOOLEAN, inCanvas \in BOOLEAN : Click(onSvg, inCanvas)
    \/ PlaceStamp
    \/ \E textureType \in {"solid", "stamp"} : ClickBgType(textureType)
    \/ \E els \in EditorViews, includeGrid \in BOOLEAN : RunExport(els, includeGrid)

ExportSpec == Init /\ [][ExportNext]_vars

\* The groups of the document hold no hit area.
NoHitAreas(doc) ==
    \A i \in DOMAIN doc.shapes :
        \A j \in DOMAIN doc.shapes[i].children :
            ~(Has(doc.shapes[i].children[j], "class")
              /\ doc.shapes[i].children[j].class = "art-shape-hit-area")

\* C37: the document that an export hands to the download has the base
\* view box of the composition in the page as its view box, holds none of
\* the editor's elements, and carries the embedded metadata of the
\* composition in the page.
ExportIndependent ==
    [][download' # download =>
          /\ download'.viewBox = readBaseViewBox(svg)
          /\ ~Has(download', "editor")
          /\ NoHitAreas(download')
          /\ download'.metadata = svg.metadata]_vars

\* A composition was exported from a view that is zoomed or panned, with
\* the editor's elements in the markup, after a shape was moved or removed
\* or a stamp was placed.
ExportIndependentWitness ==
    /\ download # JsNull
    /\ svg # JsNull
    /\ svg.viewBox # readBaseViewBox(svg)
    /\ latestSvg.viewBox # readBaseViewBox(svg)
    /\ download.metadata = svg.metadata
    /\ Decoded(download) # JsNull
    /\ Len(Decoded(download).shapes) # 26

(***************************************************************************)
(* Fill references.  renderArtGridSvg is handed compositions of one or two *)
(* shapes whose pattern is solid, a known texture or a name outside the    *)
(* known set, on backgrounds of every texture type, complete or not.       *)
(***************************************************************************)
FillPatterns == {"solid", "dots", "zigzag"}

FillShapes ==
    {[id |-> <<"shape", 1>>, type |-> t, x |-> 10 * Unit, y |-> 20 * Unit,
      size |-> 8 * Unit, color |-> "#ff0000", pattern |-> p, rotation |-> 0] :
        t \in {"circle", "rect"}, p \in FillPatterns}
    \cup {[id |-> <<"shape", 2>>, type |-> "stamp", x |-> 10 * Unit, y |-> 20 * Unit,
           size |-> 8 * Unit, color |-> "#ff0000", pattern |-> p, rotation |-> 0,
           stampPath |-> "M0 0L4 0L4 4Z", stampWidth |-> 4, stampHeight |-> 4] :
             p \in FillPatterns}

FillBackgrounds ==
    Backgrounds
    \cup {[color |-> "#ff0000", textureType |-> "pattern", pattern |-> "zigzag",
           textureScale |-> Unit],
          [color |-> "#00ff00", textureType |-> "stamp", pattern |-> "dots",
           textureScale |-> Unit, stampPath |-> "M0,0h1v1h-1z"],
          [color |-> "#00ff00", textureType |-> "stamp", pattern |-> "dots",
           textureScale |-> Unit, stampWidth |-> 6, stampHeight |-> 4]}

FillGrids ==
    {[meta |-> [width |-> 100, height |-> 200, seed |-> SeedNum(42),
                shapeCount |-> Len(shapes)],
      shapes |-> shapes,
      background |-> bg] :
        shapes \in {<<s>> : s \in FillShapes}
                   \cup {<<s, t>> : s \in FillShapes, t \in FillShapes},
        bg \in FillBackgrounds}

FillInit ==
    /\ defaultSeed = SeedNum(1700000000)
    /\ engine = "spread"
    /\ caller = "library"
    /\ options = JsNull
    /\ calls = <<>>
    /\ grid \in FillGrids
    /\ svg = JsNull
    /\ decoded = JsNull
    /\ ToolIdle

FillNext == Render

FillSpec == FillInit /\ [][FillNext]_vars

\* The fill that renderShape writes for the shape is url(#pattern-index).
FillIsReference(shape) ==
    IF shape.type = "stamp" /\ TruthyText(shape, "stampPath")
    THEN shape.pattern \in TexturePatterns
    ELSE shape.pattern # "solid"

\* The fill that renderArtGridSvg gives the background is a url(#...).
BgFillIsReference(bg) ==
    \/ bg.textureType = "pattern" /\ TruthyText(bg, "pattern")
    \/ bg.textureType = "stamp" /\ TruthyText(bg, "stampPath")

\* The document defines a pattern of the name that the fill refers to.
Defined(doc, fill) ==
    IF Len(fill) = 3
    THEN \E j \in DOMAIN doc.patterns :
            doc.patterns[j] # EmptyMarkup /\ doc.patterns[j].id = fill[3]
    ELSE doc.bgPatternDef # EmptyMarkup /\ doc.bgPatternDef.id = fill[2]

\* Every fill of the document that is a reference names a pattern defined
\* in the document.
NoDangling ==
    /\ \A i \in DOMAIN grid.shapes :
          FillIsReference(grid.shapes[i])
             => Defined(svg, svg.shapes[i].children[2].fill)
    /\ BgFillIsReference(BackgroundOf(grid)) => Defined(svg, svg.bgFill)

\* C38: in every document of renderArtGridSvg every fill of the form
\* url(#id) refers to a pattern definition of the document.
NoDanglingFill == (svg # JsNull /\ grid # JsNull) => NoDangling

\* The same for the compositions whose textures are known and whose
\* stamp backgrounds are complete.
NoDanglingFillKnown ==
    (/\ svg # JsNull /\ grid # JsNull
     /\ \A i \in DOMAIN grid.shapes : grid.shapes[i].pattern \in TexturePatterns \cup {"solid"}
     /\ grid.background \in Backgrounds)
        => NoDangling

\* A document with a textured shape on a textured background was rendered.
NoDanglingFillKnownWitness ==
    /\ svg # JsNull /\ grid # JsNull
    /\ \E i \in DOMAIN grid.shapes : grid.shapes[i].pattern = "dots"
    /\ \A i \in DOMAIN grid.shapes : grid.shapes[i].pattern \in TexturePatterns \cup {"solid"}
    /\ grid.background \in Backgrounds
    /\ grid.background.textureType = "stamp"

\* A circle or rect whose pattern is not a known name has a fill that
\* refers to a pattern the document does not define.
DanglingShapeFill ==
    /\ svg # JsNull /\ grid # JsNull
    /\ grid.background \in Backgrounds
    /\ \E i \in DOMAIN grid.shapes :
          /\ grid.shapes[i].pattern = "zigzag"
          /\ FillIsReference(grid.shapes[i])
          /\ ~Defined(svg, svg.shapes[i].children[2].fill)

\* A background whose pattern is not a known name is filled with
\* url(#bg-pattern), which the document does not define.
DanglingBackgroundPattern ==
    /\ svg # JsNull /\ grid # JsNull
    /\ grid.background.textureType = "pattern"
    /\ svg.bgFill = <<"url", "bg-pattern">>
    /\ svg.bgPatternDef = EmptyMarkup

\* A stamp background with a path and no dimensions is filled with
\* url(#bg-stamp), which the document does not define.
DanglingBackgroundStamp ==
    /\ svg # JsNull /\ grid # JsNull
    /\ grid.background.textureType = "stamp"
    /\ ~Has(grid.background, "stampWidth")
    /\ svg.bgFill = <<"url", "bg-stamp">>
    /\ svg.bgPatternDef = EmptyMarkup

(***************************************************************************)
(* Keys.  A key goes down with the focus in an input field of the panel    *)
(* or outside every field.                                                 *)
(***************************************************************************)
Keys == {"Delete", "Backspace", "v", "b", "n", "m"}

\* keydown on the window: inInput says that the target of the event is
\* inside an input, a textarea or a select.
KeyDown(key, inInput) ==
    IF key \in {"Delete", "Backspace"} /\ selectedShapeIds # {}
    THEN ClickDelete
    ELSE /\ ~inInput
         /\ \/ key = "v" /\ SetStampMode(FALSE)
            \/ key = "b" /\ SetStampMode(TRUE)
            \/ key = "n" /\ CenterCamera
            \/ key = "m" /\ KeyM

KeyNext ==
    \/ GenerateResume
    \/ \E id \in Targets, shiftKey \in BOOLEAN : PointerDownShape(id, shiftKey)
    \/ EndDrag
    \/ \E layer \in LayersClicked : LayerClick(layer)
    \/ \E factor \in ZoomFactors : Wheel(factor)
    \/ \E key \in Keys, inInput \in BOOLEAN : KeyDown(key, inInput)

KeySpec == Init /\ [][KeyNext]_vars

\* C39: a key that goes down while the focus is in an input, a textarea
\* or a select leaves the composition, the selection, the tool mode and
\* the view as they are.
KeysIdleWhileTyping ==
    [][\A key \in Keys :
          KeyDown(key, TRUE)
             => UNCHANGED <<svg, latestSvg, selectedShapeIds, selectedLayer,
                            stampMode, isGenerating, frames>>]_vars

\* The same for the keys V, B, N and M.
LetterKeysIdleWhileTyping ==
    [][\A key \in Keys \ {"Delete", "Backspace"} :
          KeyDown(key, TRUE)
             => UNCHANGED <<svg, latestSvg, selectedShapeIds, selectedLayer,
                            stampMode, isGenerating, frames>>]_vars

\* Outside the fields each of the keys has acted: shapes were deleted, the
\* stamp mode is on, and a generation waits.
KeysActed ==
    /\ svg # JsNull /\ Len(ShapesInPage) < 26
    /\ stampMode
    /\ isGenerating

(***************************************************************************)
(* The recorded seed.  The user types into the seed field between the      *)
(* edits of a composition.                                                 *)
(***************************************************************************)
\* The user types a number, or a text that is no number, into the seed field.
SetSeed(value) == Handled([fields |-> [fields EXCEPT !.seed = value]])

SeedNext ==
    \/ GenerateResume
    \/ \E value \in {FieldInt(99), FieldNaN} : SetSeed(value)
    \/ \E id \in Targets, shiftKey \in BOOLEAN : PointerDownShape(id, shiftKey)
    \/ PointerMove
    \/ EndDrag
    \/ \E layer \in LayersClicked : LayerClick(layer)
    \/ ClickDelete
    \/ SelectStamp
    \/ \E onSvg \in BOOLEAN, inCanvas \in BOOLEAN : Click(onSvg, inCanvas)
    \/ PlaceStamp
    \/ \E textureType \in {"solid", "stamp"} : ClickBgType(textureType)
    \/ ClickRandomize
    \/ RegenerateLayer

SeedSpec == Init /\ [][SeedNext]_vars

\* The seed in the metadata of the document in the page.
RecordedSeed == Decoded(svg).seed

\* C40: between two full generations no step changes the seed recorded in
\* the embedded metadata, whatever the seed field holds.
SeedKept ==
    [][(/\ svg # JsNull /\ Decoded(svg) # JsNull
        /\ svg' # JsNull /\ Decoded(svg') # JsNull
        /\ ~(isGenerating /\ ~isGenerating'))
          => RecordedSeed' = RecordedSeed]_vars

\* The gestures and the background change keep the recorded seed.
SeedKeptByGestures ==
    [][(/\ svg # JsNull /\ Decoded(svg) # JsNull
        /\ svg' # JsNull /\ Decoded(svg') # JsNull
        /\ \/ PointerMove
           \/ EndDrag
           \/ \E textureType \in {"solid", "stamp"} : ClickBgType(textureType))
          => RecordedSeed' = RecordedSeed]_vars

\* The seed field holds another seed than the composition records, and
\* the composition was edited.
SeedFieldApart ==
    /\ svg # JsNull /\ Decoded(svg) # JsNull
    /\ ~isGenerating
    /\ RecordedSeed = SeedNum(42)
    /\ fields.seed = FieldInt(99)
    /\ background.textureType = "stamp"
==========================================================================
